---- MODULE Spec2Model ----
(***************************************************************************)
(* A model of the registries of data_mapper:                               *)
(*   data_mapper/database/registry.py   DatabaseRegistry                   *)
(*   data_mapper/mapper/registry.py     MapperRegistry                     *)
(* Both registries are class-level state (OrderedDicts and a flag); every  *)
(* class method is one action.  The last call and its outcome (the value   *)
(* returned or the error raised) are kept in `call` and `result`.          *)
(***************************************************************************)
EXTENDS Integers, Sequences, FiniteSets, TLC

VARIABLES
    registered_databases,   \* DatabaseRegistry.registered_databases (OrderedDict)
    registered_profiles,    \* DatabaseRegistry.registered_profiles  (OrderedDict)
    is_initialized,         \* DatabaseRegistry.is_initialized
    registered_mappers,     \* MapperRegistry.registered_mappers     (OrderedDict)
    mapper_is_initialized,  \* MapperRegistry.is_initialized
    call,                   \* the last call: its operation and arguments
    result                  \* the outcome of the last call

vars == <<registered_databases, registered_profiles, is_initialized,
          registered_mappers, mapper_is_initialized, call, result>>

db_vars == <<registered_databases, registered_profiles, is_initialized>>

mapper_vars == <<registered_mappers, mapper_is_initialized>>

-----------------------------------------------------------------------------
(* Bounds of the model.                                                    *)

\* The number of letter-case variants of the driver key "mysql" that
\* profiles carry as their system, besides the key itself.
NumCaseVariants == 2

\* The largest number of entries of a dict given as db_fields.
MaxFields == 2

\* The largest number of lines of a profile file given to
\* read_profiles_from_file.
MaxLines == 3

-----------------------------------------------------------------------------
(* Python values.  A str is a sequence of characters.                      *)

None == [kind |-> "None"]

Str(chars) == [kind |-> "str", chars |-> chars]

\* object(): a value that is neither None nor an instance of any class of
\* the package.
Object == [kind |-> "object"]

IsStr(v) == v.kind = "str"

Whitespace == {" ", "\t", "\n"}

UpperCase == <<"A", "B", "C", "D", "E", "F", "G", "H", "I", "J", "K", "L", "M",
               "N", "O", "P", "Q", "R", "S", "T", "U", "V", "W", "X", "Y", "Z">>

LowerCase == <<"a", "b", "c", "d", "e", "f", "g", "h", "i", "j", "k", "l", "m",
               "n", "o", "p", "q", "r", "s", "t", "u", "v", "w", "x", "y", "z">>

\* str.lower() on one character.
LowerChar(c) ==
    IF \E i \in DOMAIN UpperCase : UpperCase[i] = c
    THEN LowerCase[CHOOSE i \in DOMAIN UpperCase : UpperCase[i] = c]
    ELSE c

\* str.lower()
Lower(chars) == [i \in DOMAIN chars |-> LowerChar(chars[i])]

RECURSIVE LStrip(_)
LStrip(chars) ==
    IF chars # <<>> /\ Head(chars) \in Whitespace
    THEN LStrip(Tail(chars))
    ELSE chars

RECURSIVE RStrip(_)
RStrip(chars) ==
    IF chars # <<>> /\ chars[Len(chars)] \in Whitespace
    THEN RStrip(SubSeq(chars, 1, Len(chars) - 1))
    ELSE chars

\* str.strip()
Strip(chars) == RStrip(LStrip(chars))

\* `v is None or len(v.strip()) == 0`
IsBlank(v) == v = None \/ Len(Strip(v.chars)) = 0

-----------------------------------------------------------------------------
(* OrderedDict: a sequence of entries in insertion order.                  *)

EmptyDict == <<>>

Keys(od) == {od[i].key : i \in DOMAIN od}

\* `key in od`
Contains(od, key) == \E i \in DOMAIN od : od[i].key = key

IndexOf(od, key) == CHOOSE i \in DOMAIN od : od[i].key = key

\* `od[key]`, for a key of od
Lookup(od, key) == od[IndexOf(od, key)].value

\* `od[key] = value`: a key already present keeps its position, a new key
\* is appended.
SetItem(od, key, value) ==
    IF Contains(od, key)
    THEN [od EXCEPT ![IndexOf(od, key)] = [key |-> key, value |-> value]]
    ELSE Append(od, [key |-> key, value |-> value])

\* `list(od.values())`
Values(od) == [i \in DOMAIN od |-> od[i].value]

-----------------------------------------------------------------------------
(* Outcomes of a call.                                                     *)

Return(value) == [kind |-> "return", value |-> value]

\* raise error(code=code, ...); an error that is no DataMapperError (a
\* KeyError, a TypeError) carries no code, written NoCode.
Raise(error, code) == [kind |-> "raise", error |-> error, code |-> code]

NoCode == None

Returned(outcome) == outcome.kind = "return"

Raised(outcome, error, code) == outcome = Raise(error, code)

-----------------------------------------------------------------------------
(* data_mapper/database/base.py and the drivers.                           *)

\* A member of the enumeration DatabaseSystem.
DatabaseSystem(value) == [kind |-> "DatabaseSystem", value |-> Str(value)]

MYSQL == DatabaseSystem(<<"m", "y", "s", "q", "l">>)

SQLITE == DatabaseSystem(<<"s", "q", "l", "i", "t", "e">>)

POSTGRESQL ==
    DatabaseSystem(<<"p", "o", "s", "t", "g", "r", "e", "s", "q", "l">>)

\* A class: its name, whether it is a subclass of Database, its class
\* attribute `system`, and the parameters its constructor takes besides self.
Class(name, is_database, system, init_params) ==
    [kind |-> "class", name |-> name, is_database |-> is_database,
     system |-> system, init_params |-> init_params]

MySQLDatabase == Class("MySQLDatabase", TRUE, MYSQL, <<"db_profile">>)

SQLiteDatabase == Class("SQLiteDatabase", TRUE, SQLITE, <<"db_profile">>)

\* A driver that a caller defines for a system without built-in driver:
\* `class PostgreSQLDatabase(Database): system = DatabaseSystem.POSTGRESQL`
\* with the constructor of the built-in drivers.
PostgreSQLDatabase ==
    Class("PostgreSQLDatabase", TRUE, POSTGRESQL, <<"db_profile">>)

\* Database itself: `system = None`, no constructor of its own.
Database == Class("Database", TRUE, None, <<>>)

\* The drivers the tests define: a subclass of Database with a valid system
\* (and the constructor of object), a class that is no subclass of Database,
\* and a subclass of Database whose system is a plain string.
DummyDatabase == Class("DummyDatabase", TRUE, MYSQL, <<>>)

NotADatabase == Class("NotADatabase", FALSE, None, <<>>)

InvalidSystemDatabase ==
    Class("InvalidSystemDatabase", TRUE,
          Str(<<"D", "u", "m", "m", "y", "S", "y", "s", "t", "e", "m">>), <<>>)

\* DatabaseProfile(name, system=system, user=user); host, port, password and
\* db are stored like user and read by nothing.
DatabaseProfile(name, system, user) ==
    [kind |-> "DatabaseProfile", name |-> name, system |-> system,
     user |-> user]

IsDatabaseProfile(v) == v.kind = "DatabaseProfile"

\* cls(db_profile): the driver instance, or the TypeError of a constructor
\* that takes no argument.
Construct(class, db_profile) ==
    IF Len(class.init_params) = 1
    THEN Return([kind |-> "instance", class |-> class,
                 system |-> class.system, db_profile |-> db_profile])
    ELSE Raise("TypeError", NoCode)

-----------------------------------------------------------------------------
(* DatabaseRegistry: validation methods.  Each takes the registry state it *)
(* reads and gives the outcome of the call.                                *)

validate_database(database, error_to_raise) ==
    IF database = None THEN Raise(error_to_raise, 1)
    ELSE IF ~database.is_database THEN Raise(error_to_raise, 2)
    ELSE IF database.system.kind # "DatabaseSystem" THEN Raise(error_to_raise, 3)
    ELSE Return(database)

\* validate_profile comparing the system with the driver keys as it is
\* written, without lower().
validate_profile_case_sensitive(databases, profile, error_to_raise) ==
    IF profile = None THEN Raise(error_to_raise, 1)
    ELSE IF ~IsDatabaseProfile(profile) THEN Raise(error_to_raise, 2)
    ELSE IF IsBlank(profile.name) THEN Raise(error_to_raise, 3)
    ELSE IF IsBlank(profile.system) THEN Raise(error_to_raise, 4)
    ELSE IF ~Contains(databases, Str(Strip(profile.system.chars)))
         THEN Raise(error_to_raise, 5)
         ELSE Return(profile)

\* validate_profile that checks the system before the name.
validate_profile_system_first(databases, profile, error_to_raise) ==
    IF profile = None THEN Raise(error_to_raise, 1)
    ELSE IF ~IsDatabaseProfile(profile) THEN Raise(error_to_raise, 2)
    ELSE IF IsBlank(profile.system) THEN Raise(error_to_raise, 4)
    ELSE IF IsBlank(profile.name) THEN Raise(error_to_raise, 3)
    ELSE IF ~Contains(databases, Str(Strip(Lower(profile.system.chars))))
         THEN Raise(error_to_raise, 5)
         ELSE Return(profile)

validate_profile(databases, profile, error_to_raise) ==
    IF profile = None THEN Raise(error_to_raise, 1)
    ELSE IF ~IsDatabaseProfile(profile) THEN Raise(error_to_raise, 2)
    ELSE IF IsBlank(profile.name) THEN Raise(error_to_raise, 3)
    ELSE IF IsBlank(profile.system) THEN Raise(error_to_raise, 4)
    ELSE LET db_system == Str(Strip(Lower(profile.system.chars)))
         IN  IF ~Contains(databases, db_system)
             THEN Raise(error_to_raise, 5)
             ELSE Return(profile)

\* validate_profile_name that raises GetProfileError for a name that is
\* not registered, whatever error it is told to raise.
validate_profile_name_fixed_family(profiles, name, error_to_raise) ==
    IF IsBlank(name) THEN Raise(error_to_raise, 1)
    ELSE IF ~Contains(profiles, name) THEN Raise("GetProfileError", 2)
    ELSE Return(name)

validate_profile_name(profiles, name, error_to_raise) ==
    IF IsBlank(name) THEN Raise(error_to_raise, 1)
    ELSE IF ~Contains(profiles, name) THEN Raise(error_to_raise, 2)
    ELSE Return(name)

-----------------------------------------------------------------------------
(* DatabaseRegistry: getter methods.                                       *)

\* get_profile that looks the name up without surrounding white space.
get_profile_stripped(profiles, profile_name) ==
    IF IsBlank(profile_name) THEN Raise("GetProfileError", 1)
    ELSE IF ~Contains(profiles, Str(Strip(profile_name.chars)))
         THEN Raise("GetProfileError", 2)
         ELSE Return(Lookup(profiles, Str(Strip(profile_name.chars))))

get_profile(profiles, profile_name) ==
    LET validated == validate_profile_name(profiles, profile_name, "GetProfileError")
    IN  IF ~Returned(validated) THEN validated
        ELSE Return(Lookup(profiles, profile_name))

get_first_registered_profile(profiles) ==
    IF Len(profiles) = 0 THEN Raise("GetProfileError", 3)
    ELSE Return(Values(profiles)[1])

\* get_last_registered_profile returning the entry of the first position.
get_last_registered_profile_oldest(profiles) ==
    IF Len(profiles) = 0 THEN Raise("GetProfileError", 3)
    ELSE Return(Values(profiles)[1])

get_last_registered_profile(profiles) ==
    IF Len(profiles) = 0 THEN Raise("GetProfileError", 3)
    ELSE Return(Values(profiles)[Len(profiles)])

\* The two statements of get_last_registered_profile, each reading
\* registered_profiles once: the test `len(cls.registered_profiles) == 0`
\* and `list(cls.registered_profiles.values())[-1]`, which raises
\* IndexError on a mapping without entries.
check_profiles_registered(profiles) ==
    IF Len(profiles) = 0 THEN Raise("GetProfileError", 3) ELSE Return(None)

\* `list(...)[-1]` giving None for a mapping without entries.
read_last_profile_or_none(profiles) ==
    IF Len(profiles) = 0 THEN Return(None)
    ELSE Return(Values(profiles)[Len(profiles)])

read_last_profile(profiles) ==
    IF Len(profiles) = 0 THEN Raise("IndexError", NoCode)
    ELSE Return(Values(profiles)[Len(profiles)])

\* `cls.registered_profiles.get(profile_name)`, the second statement of
\* get_profile: None for a name that is not a key.
read_profile(profiles, profile_name) ==
    IF Contains(profiles, profile_name) THEN Lookup(profiles, profile_name)
    ELSE None

\* The driver lookup and construction of get_database:
\* `cls.registered_databases[profile.system](profile)`.
instantiate_database(databases, profile) ==
    IF ~Contains(databases, profile.system) THEN Raise("KeyError", NoCode)
    ELSE Construct(Lookup(databases, profile.system), profile)

\* The rest of get_database once the profile is chosen.
resolve_database(databases, profiles, profile) ==
    LET resolved == IF profile = None
                    THEN get_last_registered_profile(profiles)
                    ELSE Return(profile)
    IN  IF ~Returned(resolved) THEN resolved
        ELSE
        LET validated == validate_profile(databases, resolved.value,
                                          "GetDatabaseError")
        IN  IF ~Returned(validated) THEN validated
            ELSE instantiate_database(databases, resolved.value)

\* get_database that uses the profile argument when no profile is
\* registered under the name.
get_database_profile_fallback(databases, profiles, profile_name, profile) ==
    LET named == IF profile_name # None
                 THEN get_profile(profiles, profile_name)
                 ELSE Return(profile)
    IN  IF Returned(named) THEN resolve_database(databases, profiles, named.value)
        ELSE IF profile # None THEN resolve_database(databases, profiles, profile)
        ELSE named

\* get_database with `if profile_name:` for `if profile_name is not None:`.
get_database_truthy_name(databases, profiles, profile_name, profile) ==
    LET named == IF profile_name # None /\ profile_name # Str(<<>>)
                 THEN get_profile(profiles, profile_name)
                 ELSE Return(profile)
    IN  IF ~Returned(named) THEN named
        ELSE resolve_database(databases, profiles, named.value)

get_database(databases, profiles, profile_name, profile) ==
    LET named == IF profile_name # None
                 THEN get_profile(profiles, profile_name)
                 ELSE Return(profile)
    IN  IF ~Returned(named) THEN named
        ELSE
        LET resolved == IF named.value = None
                        THEN get_last_registered_profile(profiles)
                        ELSE named
        IN  IF ~Returned(resolved) THEN resolved
            ELSE
            LET validated == validate_profile(databases, resolved.value,
                                              "GetDatabaseError")
            IN  IF ~Returned(validated) THEN validated
                ELSE instantiate_database(databases, resolved.value)

-----------------------------------------------------------------------------
(* DatabaseRegistry: read_profiles_from_file.  A file is given by whether  *)
(* it exists, whether it can be read, and its lines: section headers       *)
(* `[name]`, options `key = value`, and lines that are neither.            *)

File(exists, readable, lines) ==
    [kind |-> "file", exists |-> exists, readable |-> readable, lines |-> lines]

SectionLine(name) == [line |-> "section", name |-> name]

OptionLine(key, value) == [line |-> "option", key |-> key, value |-> value]

JunkLine == [line |-> "junk"]

\* configparser.ConfigParser().read(): the sections in file order, each an
\* OrderedDict of its options (keys lowercased, values stripped); it raises
\* for a line outside a section, a line that is no option, a section given
\* twice or an option given twice.
RECURSIVE ParseLines(_, _)
ParseLines(lines, sections) ==
    IF lines = <<>> THEN Return(sections)
    ELSE
    LET l == Head(lines) IN
    IF l.line = "section"
    THEN IF Contains(sections, l.name)
         THEN Raise("DuplicateSectionError", NoCode)
         ELSE ParseLines(Tail(lines), SetItem(sections, l.name, EmptyDict))
    ELSE IF l.line = "option"
    THEN IF sections = <<>>
         THEN Raise("MissingSectionHeaderError", NoCode)
         ELSE LET last == sections[Len(sections)]
                  key == Str(Lower(l.key.chars))
              IN  IF Contains(last.value, key)
                  THEN Raise("DuplicateOptionError", NoCode)
                  ELSE ParseLines(Tail(lines),
                           SetItem(sections, last.key,
                               SetItem(last.value, key, Str(Strip(l.value.chars)))))
    ELSE IF sections = <<>>
         THEN Raise("MissingSectionHeaderError", NoCode)
         ELSE Raise("ParsingError", NoCode)

\* section.get(option): None for an option the section does not have.
SectionGet(section, option) ==
    IF Contains(section, option) THEN Lookup(section, option) ELSE None

OptionSystem == Str(<<"s", "y", "s", "t", "e", "m">>)

OptionUser == Str(<<"u", "s", "e", "r">>)

read_profiles_from_file(path) ==
    IF ~path.exists THEN Raise("ParseProfileConfigFileError", 1)
    ELSE IF ~path.readable THEN Raise("ParseProfileConfigFileError", 2)
    ELSE LET parsed == ParseLines(path.lines, EmptyDict) IN
         IF ~Returned(parsed) THEN Raise("ParseProfileConfigFileError", 3)
         ELSE LET profile_file == parsed.value IN
              Return([i \in DOMAIN profile_file |->
                        DatabaseProfile(profile_file[i].key,
                            SectionGet(profile_file[i].value, OptionSystem),
                            SectionGet(profile_file[i].value, OptionUser))])

-----------------------------------------------------------------------------
(* DatabaseRegistry: clear, initialize and the register methods, as        *)
(* functions from the registry state to the new state and the outcome.     *)

\* The state of DatabaseRegistry after a call, and the outcome of the call.
DbState(databases, profiles, initialized, outcome) ==
    [databases |-> databases, profiles |-> profiles,
     initialized |-> initialized, outcome |-> outcome]

\* clear that leaves the registered profiles.
clear_keeps_profiles(databases, profiles, initialized) ==
    DbState(EmptyDict, profiles, FALSE, Return(None))

clear(databases, profiles, initialized) ==
    DbState(EmptyDict, EmptyDict, FALSE, Return(None))

\* register_database that keeps the driver first registered for a system.
register_database_keep_first(databases, profiles, initialized, database) ==
    LET validated == validate_database(database, "RegisterDatabaseError") IN
    IF ~Returned(validated)
    THEN DbState(databases, profiles, initialized, validated)
    ELSE LET db_system_str == Str(Lower(database.system.value.chars))
         IN  IF Contains(databases, db_system_str)
             THEN DbState(databases, profiles, initialized, Return(None))
             ELSE DbState(SetItem(databases, db_system_str, database),
                          profiles, initialized, Return(None))

\* register_database that adds an entry also for a key that is present.
register_database_append(databases, profiles, initialized, database) ==
    LET validated == validate_database(database, "RegisterDatabaseError") IN
    IF ~Returned(validated)
    THEN DbState(databases, profiles, initialized, validated)
    ELSE DbState(Append(databases,
                        [key |-> Str(Lower(database.system.value.chars)),
                         value |-> database]),
                 profiles, initialized, Return(None))

\* register_database that marks the registry as initialized when it has
\* registered the driver.
register_database_initializing(databases, profiles, initialized, database) ==
    LET validated == validate_database(database, "RegisterDatabaseError") IN
    IF ~Returned(validated)
    THEN DbState(databases, profiles, initialized, validated)
    ELSE LET db_system_str == Str(Lower(database.system.value.chars))
         IN  DbState(SetItem(databases, db_system_str, database), profiles,
                     TRUE, Return(None))

register_database(databases, profiles, initialized, database) ==
    LET validated == validate_database(database, "RegisterDatabaseError") IN
    IF ~Returned(validated)
    THEN DbState(databases, profiles, initialized, validated)
    ELSE LET db_system_str == Str(Lower(database.system.value.chars))
         IN  DbState(SetItem(databases, db_system_str, database), profiles,
                     initialized, Return(None))

\* `del od[key]`
DelItem(od, key) == SelectSeq(od, LAMBDA entry : entry.key # key)

\* register_profile that moves a name registered again to the end.
register_profile_move_to_end(databases, profiles, initialized, profile) ==
    LET validated == validate_profile(databases, profile, "RegisterProfileError") IN
    IF ~Returned(validated)
    THEN DbState(databases, profiles, initialized, validated)
    ELSE DbState(databases,
                 SetItem(DelItem(profiles, profile.name), profile.name, profile),
                 initialized, Return(None))

\* register_profile that accepts a profile whose system has no registered
\* driver.
register_profile_any_system(databases, profiles, initialized, profile) ==
    LET validated == validate_profile(databases, profile, "RegisterProfileError") IN
    IF ~Returned(validated) /\ validated.code # 5
    THEN DbState(databases, profiles, initialized, validated)
    ELSE DbState(databases, SetItem(profiles, profile.name, profile),
                 initialized, Return(None))

register_profile(databases, profiles, initialized, profile) ==
    LET validated == validate_profile(databases, profile, "RegisterProfileError") IN
    IF ~Returned(validated)
    THEN DbState(databases, profiles, initialized, validated)
    ELSE DbState(databases, SetItem(profiles, profile.name, profile),
                 initialized, Return(None))

\* `for profile in profiles: cls.register_profile(profile)`: stops at the
\* first profile that register_profile refuses.
RECURSIVE register_profiles(_, _)
register_profiles(state, profiles) ==
    IF profiles = <<>> \/ ~Returned(state.outcome) THEN state
    ELSE register_profiles(
             register_profile(state.databases, state.profiles,
                              state.initialized, Head(profiles)),
             Tail(profiles))

\* initialize that does not clear the registry first.
initialize_without_clear(databases, profiles, initialized, profiles_file_path) ==
    LET first == register_database(databases, profiles, initialized,
                                   MySQLDatabase)
        known == register_database(first.databases, first.profiles,
                                   first.initialized, SQLiteDatabase)
    IN  IF profiles_file_path = None
        THEN DbState(known.databases, known.profiles, TRUE, Return(None))
        ELSE
        LET read == read_profiles_from_file(profiles_file_path) IN
        IF ~Returned(read)
        THEN DbState(known.databases, known.profiles, known.initialized, read)
        ELSE
        LET registered == register_profiles(known, read.value) IN
        IF ~Returned(registered.outcome) THEN registered
        ELSE DbState(registered.databases, registered.profiles, TRUE,
                     Return(None))

\* initialize that gives the registry back as it was when the profiles
\* cannot be read.
initialize_restoring(databases, profiles, initialized, profiles_file_path) ==
    LET cleared == clear(databases, profiles, initialized)
        first == register_database(cleared.databases, cleared.profiles,
                                   cleared.initialized, MySQLDatabase)
        known == register_database(first.databases, first.profiles,
                                   first.initialized, SQLiteDatabase)
    IN  IF profiles_file_path = None
        THEN DbState(known.databases, known.profiles, TRUE, Return(None))
        ELSE
        LET read == read_profiles_from_file(profiles_file_path) IN
        IF ~Returned(read)
        THEN DbState(databases, profiles, initialized, read)
        ELSE
        LET registered == register_profiles(known, read.value) IN
        IF ~Returned(registered.outcome) THEN registered
        ELSE DbState(registered.databases, registered.profiles, TRUE,
                     Return(None))

\* initialize that marks the registry as initialized before it reads the
\* profiles.
initialize_flag_first(databases, profiles, initialized, profiles_file_path) ==
    LET cleared == clear(databases, profiles, initialized)
        first == register_database(cleared.databases, cleared.profiles,
                                   TRUE, MySQLDatabase)
        known == register_database(first.databases, first.profiles,
                                   first.initialized, SQLiteDatabase)
    IN  IF profiles_file_path = None
        THEN DbState(known.databases, known.profiles, TRUE, Return(None))
        ELSE
        LET read == read_profiles_from_file(profiles_file_path) IN
        IF ~Returned(read)
        THEN DbState(known.databases, known.profiles, known.initialized, read)
        ELSE register_profiles(known, read.value)

initialize(databases, profiles, initialized, profiles_file_path) ==
    LET cleared == clear(databases, profiles, initialized)
        first == register_database(cleared.databases, cleared.profiles,
                                   cleared.initialized, MySQLDatabase)
        known == register_database(first.databases, first.profiles,
                                   first.initialized, SQLiteDatabase)
    IN  IF profiles_file_path = None
        THEN DbState(known.databases, known.profiles, TRUE, Return(None))
        ELSE
        LET read == read_profiles_from_file(profiles_file_path) IN
        IF ~Returned(read)
        THEN DbState(known.databases, known.profiles, known.initialized, read)
        ELSE
        LET registered == register_profiles(known, read.value) IN
        IF ~Returned(registered.outcome) THEN registered
        ELSE DbState(registered.databases, registered.profiles, TRUE,
                     Return(None))

-----------------------------------------------------------------------------
(* MapperRegistry (data_mapper/mapper/registry.py) and Mapper              *)
(* (data_mapper/mapper/base.py).                                           *)

\* A class given as model: whether it is a subclass of Model.
ModelClass(name, is_model) ==
    [kind |-> "class", name |-> name, is_model |-> is_model]

\* A subclass of a class given as model: it is a Model if its base is one.
Subclass(name, base) ==
    [kind |-> "class", name |-> name, is_model |-> base.is_model,
     base |-> base.name]

\* An instance of a subclass of DatabaseField, such as
\* DatabaseStringField(name).
DatabaseField(name) == [kind |-> "DatabaseField", name |-> name]

\* A dict, in the order of its items().
Dict(items) == [kind |-> "dict", items |-> items]

\* The parameters of Mapper.__init__ besides self.
MapperInitParams == <<"database">>

\* Mapper(*args): the mapper, or the TypeError of a call whose arguments do
\* not match the parameters of Mapper.__init__.
Mapper(args) ==
    IF Len(args) = Len(MapperInitParams)
    THEN Return([kind |-> "Mapper", database |-> args[1]])
    ELSE Raise("TypeError", NoCode)

validate_model(model, error_to_raise) ==
    IF model = None THEN Raise(error_to_raise, 1)
    ELSE IF model.kind # "class" THEN Raise(error_to_raise, 2)
    ELSE IF ~model.is_model THEN Raise(error_to_raise, 3)
    ELSE Return(model)

\* A loop over db_fields.items() that applies each rule to every item
\* before it applies the next rule.
validate_items_rule_by_rule(items, error_to_raise) ==
    IF \E i \in DOMAIN items : ~IsStr(items[i].key)
    THEN Raise(error_to_raise, 6)
    ELSE IF \E i \in DOMAIN items : Len(Strip(items[i].key.chars)) = 0
    THEN Raise(error_to_raise, 7)
    ELSE IF \E i \in DOMAIN items : items[i].value.kind # "DatabaseField"
    THEN Raise(error_to_raise, 8)
    ELSE Return(None)

\* The loop of validate_fields over db_fields.items().
RECURSIVE validate_items(_, _)
validate_items(items, error_to_raise) ==
    IF items = <<>> THEN Return(None)
    ELSE LET field_name == Head(items).key
             field == Head(items).value
         IN  IF ~IsStr(field_name) THEN Raise(error_to_raise, 6)
             ELSE IF Len(Strip(field_name.chars)) = 0 THEN Raise(error_to_raise, 7)
             ELSE IF field.kind # "DatabaseField" THEN Raise(error_to_raise, 8)
             ELSE validate_items(Tail(items), error_to_raise)

validate_fields(db_fields, error_to_raise) ==
    IF db_fields = None THEN Raise(error_to_raise, 3)
    ELSE IF db_fields.kind # "dict" THEN Raise(error_to_raise, 4)
    ELSE IF Len(db_fields.items) = 0 THEN Raise(error_to_raise, 5)
    ELSE LET validated == validate_items(db_fields.items, error_to_raise)
         IN  IF ~Returned(validated) THEN validated ELSE Return(db_fields)

\* The state of MapperRegistry after a call, and the outcome of the call.
MapperState(mappers, initialized, outcome) ==
    [mappers |-> mappers, initialized |-> initialized, outcome |-> outcome]

mapper_clear(mappers, initialized) == MapperState(EmptyDict, FALSE, Return(None))

mapper_initialize(mappers, initialized) ==
    LET cleared == mapper_clear(mappers, initialized)
    IN  MapperState(cleared.mappers, TRUE, Return(None))

\* A decorator that does not validate the model.
register_any_model(mappers, initialized, databases, profiles, db_profile, db_profile_name, db_fields, model) ==
    LET valid_fields == validate_fields(db_fields, "RegisterMapperError") IN
    IF ~Returned(valid_fields) THEN MapperState(mappers, initialized, valid_fields)
    ELSE
    LET database == get_database(databases, profiles, db_profile_name, db_profile) IN
    IF ~Returned(database) THEN MapperState(mappers, initialized, database)
    ELSE
    LET mapper == Mapper(<<database.value, db_fields>>) IN
    IF ~Returned(mapper) THEN MapperState(mappers, initialized, mapper)
    ELSE MapperState(SetItem(mappers, model, mapper.value), initialized,
                     Return(model))

\* A decorator that validates the fields before the model.
register_fields_first(mappers, initialized, databases, profiles, db_profile, db_profile_name, db_fields, model) ==
    LET valid_fields == validate_fields(db_fields, "RegisterMapperError") IN
    IF ~Returned(valid_fields) THEN MapperState(mappers, initialized, valid_fields)
    ELSE
    LET valid_model == validate_model(model, "RegisterMapperError") IN
    IF ~Returned(valid_model) THEN MapperState(mappers, initialized, valid_model)
    ELSE
    LET database == get_database(databases, profiles, db_profile_name, db_profile) IN
    IF ~Returned(database) THEN MapperState(mappers, initialized, database)
    ELSE
    LET mapper == Mapper(<<database.value, db_fields>>) IN
    IF ~Returned(mapper) THEN MapperState(mappers, initialized, mapper)
    ELSE MapperState(SetItem(mappers, model, mapper.value), initialized,
                     Return(model))

\* The decorator that MapperRegistry.register(db_profile, db_profile_name,
\* db_fields) returns, applied to model.
register(mappers, initialized, databases, profiles, db_profile, db_profile_name, db_fields, model) ==
    LET valid_model == validate_model(model, "RegisterMapperError") IN
    IF ~Returned(valid_model) THEN MapperState(mappers, initialized, valid_model)
    ELSE
    LET valid_fields == validate_fields(db_fields, "RegisterMapperError") IN
    IF ~Returned(valid_fields) THEN MapperState(mappers, initialized, valid_fields)
    ELSE
    LET database == get_database(databases, profiles, db_profile_name, db_profile) IN
    IF ~Returned(database) THEN MapperState(mappers, initialized, database)
    ELSE
    LET mapper == Mapper(<<database.value, db_fields>>) IN
    IF ~Returned(mapper) THEN MapperState(mappers, initialized, mapper)
    ELSE MapperState(SetItem(mappers, model, mapper.value), initialized,
                     Return(model))

\* get_mapper that falls back to the mapper of the base class.
get_mapper_of_base_class(mappers, model) ==
    LET valid_model == validate_model(model, "GetMapperError") IN
    IF ~Returned(valid_model) THEN valid_model
    ELSE IF Contains(mappers, model) THEN Return(Lookup(mappers, model))
    ELSE IF \E i \in DOMAIN mappers :
               "base" \in DOMAIN model /\ mappers[i].key.name = model.base
         THEN Return(mappers[CHOOSE i \in DOMAIN mappers :
                                 mappers[i].key.name = model.base].value)
         ELSE Raise("GetMapperError", 4)

get_mapper(mappers, model) ==
    LET valid_model == validate_model(model, "GetMapperError") IN
    IF ~Returned(valid_model) THEN valid_model
    ELSE IF ~Contains(mappers, model) THEN Raise("GetMapperError", 4)
    ELSE Return(Lookup(mappers, model))

-----------------------------------------------------------------------------
(* The arguments the calls are made with.                                  *)

EmptyStr == Str(<<>>)

BlankStr == Str(<<" ", "\t">>)

ProfileNames == {Str(<<"p", "1">>), Str(<<"p", "2">>)}

UserA == Str(<<"a">>)

\* The system of a profile: the key of a driver, letter-case variants of
\* it, variants with surrounding white space, and a system that no driver
\* has.
SystemMysql == Str(<<"m", "y", "s", "q", "l">>)

CaseVariants ==
    <<Str(<<"M", "Y", "S", "Q", "L">>), Str(<<"m", "Y", "s", "Q", "l">>),
      Str(<<"M", "y", "s", "q", "l">>), Str(<<"m", "y", "s", "q", "L">>)>>

SystemCaseVariants == {CaseVariants[i] : i \in 1..NumCaseVariants}

SystemSqlite == Str(<<"s", "q", "l", "i", "t", "e">>)

SystemPadded == Str(<<" ", "s", "q", "l", "i", "t", "e", "\t">>)

SystemPaddedUpper == Str(<<" ", "M", "Y", "S", "Q", "L", " ">>)

SystemDummy == Str(<<"d", "u", "m", "m", "y">>)

SystemPostgresql ==
    Str(<<"P", "o", "s", "t", "g", "r", "e", "S", "Q", "L">>)

\* Systems that validate_profile accepts once both drivers are registered.
DriverSystems == {SystemMysql, SystemSqlite} \cup SystemCaseVariants

PaddedSystems == {SystemPadded, SystemPaddedUpper}

\* Profiles that break one rule of validate_profile, or two.
InvalidProfiles ==
    {DatabaseProfile(None, SystemMysql, UserA),
     DatabaseProfile(BlankStr, SystemMysql, UserA),
     DatabaseProfile(Str(<<"p", "1">>), None, UserA),
     DatabaseProfile(Str(<<"p", "1">>), BlankStr, UserA),
     DatabaseProfile(Str(<<"p", "1">>), SystemDummy, UserA),
     DatabaseProfile(None, None, UserA)}

ProfilesOf(names, systems) ==
    {DatabaseProfile(name, system, UserA) : name \in names, system \in systems}

\* The profiles given to register_profile.
Profiles == ProfilesOf(ProfileNames, DriverSystems) \cup InvalidProfiles

\* A profile argument: no profile, a value that is no profile, a profile.
ProfileArguments == {None, Object} \cup Profiles

\* The name of a profile with white space before it.
PaddedName == Str(<<" ", "p", "1">>)

\* A profile name argument: no name, blank names, names of profiles.
ProfileNameArguments == {None, EmptyStr, BlankStr} \cup ProfileNames

DatabaseArguments ==
    {None, NotADatabase, InvalidSystemDatabase, MySQLDatabase, SQLiteDatabase}

\* Profile files: one that does not exist, one that cannot be read, one
\* whose first line is outside any section, one without lines, and files
\* of one and of two sections.
FileNotExisting == File(FALSE, FALSE, <<>>)

FileNotReadable == File(TRUE, FALSE, <<>>)

FileMalformed == File(TRUE, TRUE, <<JunkLine>>)

FileEmpty == File(TRUE, TRUE, <<>>)

FileSingleProfile ==
    File(TRUE, TRUE,
         <<SectionLine(Str(<<"p", "1">>)),
           OptionLine(OptionSystem, SystemMysql),
           OptionLine(OptionUser, UserA)>>)

FileTwoProfiles ==
    File(TRUE, TRUE,
         <<SectionLine(Str(<<"p", "1">>)),
           OptionLine(OptionSystem, SystemMysql),
           OptionLine(OptionUser, UserA),
           SectionLine(Str(<<"p", "2">>)),
           OptionLine(OptionSystem, SystemSqlite),
           OptionLine(OptionUser, UserA)>>)

FileNoSystem ==
    File(TRUE, TRUE,
         <<SectionLine(Str(<<"p", "1">>)),
           OptionLine(OptionSystem, SystemSqlite),
           OptionLine(OptionUser, UserA),
           SectionLine(Str(<<"p", "2">>)),
           OptionLine(OptionUser, UserA)>>)

\* A file whose last section gives its system in upper case.
FileUpperCaseSystem ==
    File(TRUE, TRUE,
         <<SectionLine(Str(<<"p", "1">>)),
           OptionLine(OptionSystem, SystemSqlite),
           OptionLine(OptionUser, UserA),
           SectionLine(Str(<<"p", "2">>)),
           OptionLine(OptionSystem, CaseVariants[1]),
           OptionLine(OptionUser, UserA)>>)

\* A file of three sections whose second section gives no system.
FileSecondRefused ==
    File(TRUE, TRUE,
         <<SectionLine(Str(<<"p", "1">>)),
           OptionLine(OptionSystem, SystemSqlite),
           SectionLine(Str(<<"p", "2">>)),
           OptionLine(OptionUser, UserA),
           SectionLine(Str(<<"p", "3">>)),
           OptionLine(OptionSystem, SystemMysql)>>)

FileArguments ==
    {None, FileNotExisting, FileNotReadable, FileMalformed, FileEmpty,
     FileSingleProfile, FileTwoProfiles, FileNoSystem, FileUpperCaseSystem}

\* The lines of profile files: section headers, options and a line that
\* is neither.
FileLines ==
    {SectionLine(name) : name \in ProfileNames}
    \cup {OptionLine(OptionSystem, SystemSqlite), OptionLine(OptionUser, UserA),
          JunkLine}

\* The path argument of read_profiles_from_file: a path that does not
\* exist, and readable and unreadable files of up to MaxLines lines.
FileSources ==
    {FileNotExisting}
    \cup {File(TRUE, readable, lines) :
            readable \in BOOLEAN,
            lines \in UNION {[1..n -> FileLines] : n \in 0..MaxLines}}

DummyModel == ModelClass("DummyModel", TRUE)

ModelArguments ==
    {None, Str(<<"m", "o", "d", "e", "l">>), ModelClass("str", FALSE),
     DummyModel}

\* A subclass of DummyModel.
SubModel == Subclass("SubModel", DummyModel)

\* The mappers Mapper(database) of the driver instances of a profile.
Mappers ==
    {Mapper(<<Construct(database, DatabaseProfile(Str(<<"p", "1">>),
                                                  database.system.value,
                                                  UserA)).value>>).value :
        database \in {MySQLDatabase, SQLiteDatabase}}

\* The contents of registered_mappers that get_mapper is applied to: no
\* mapper, a mapper for a model class, for its subclass, or for both.
StoredMappers ==
    {EmptyDict}
    \cup {SetItem(EmptyDict, model, mapper) :
             model \in {DummyModel, SubModel}, mapper \in Mappers}
    \cup {SetItem(SetItem(EmptyDict, DummyModel, mapper), SubModel, other) :
             mapper \in Mappers, other \in Mappers}

KeyField == Str(<<"k", "e", "y">>)

ValidFields == Dict(<<[key |-> KeyField, value |-> DatabaseField(KeyField)]>>)

\* A db_fields argument of register: one for each rule of validate_fields,
\* and one that breaks no rule.
FieldsArguments ==
    {None, Object, Dict(<<>>),
     Dict(<<[key |-> None, value |-> DatabaseField(KeyField)]>>),
     Dict(<<[key |-> BlankStr, value |-> DatabaseField(KeyField)]>>),
     Dict(<<[key |-> KeyField, value |-> None]>>),
     ValidFields}

\* Keys of a dict given as db_fields: no strings, blank strings, names.
FieldNames == {None, EmptyStr, BlankStr, KeyField, Str(<<"k">>)}

\* Values of a dict given as db_fields: no field, a string, a field.
FieldValues == {None, Str(<<"v">>), DatabaseField(KeyField)}

\* The dicts of at most MaxFields items, in every order of their items.
FieldDicts ==
    {Dict(items) :
        items \in {entries \in UNION {[1..n -> [key : FieldNames,
                                                 value : FieldValues]] :
                                         n \in 0..MaxFields} :
                      \A i, j \in DOMAIN entries :
                          entries[i].key = entries[j].key => i = j}}

\* A db_fields argument of validate_fields: nothing, a list, a dict.
FieldMappings == {None, Object} \cup FieldDicts

\* The profile argument of get_database.
GetDatabaseProfileArguments ==
    {None, Object}
    \cup ProfilesOf({Str(<<"p", "1">>)},
                    {SystemMysql, SystemSqlite, CaseVariants[1], SystemPadded})
    \cup {DatabaseProfile(None, SystemMysql, UserA),
          DatabaseProfile(Str(<<"p", "2">>), SystemDummy, UserA)}

RegisterArgument(db_profile, db_profile_name, db_fields, model) ==
    [db_profile |-> db_profile, db_profile_name |-> db_profile_name,
     db_fields |-> db_fields, model |-> model]

\* The arguments of register and of its decorator: one argument that is
\* refused, or arguments that are all accepted.
RegisterArguments ==
    {RegisterArgument(None, None, ValidFields, model) : model \in ModelArguments}
    \cup {RegisterArgument(None, None, db_fields, DummyModel) :
             db_fields \in FieldsArguments}
    \cup {RegisterArgument(db_profile, db_profile_name, ValidFields, DummyModel) :
             db_profile \in {None, DatabaseProfile(Str(<<"p", "1">>), SystemSqlite, UserA)},
             db_profile_name \in {None, Str(<<"p", "1">>)}}

\* The arguments of register and of its decorator with any combination of
\* a refused or accepted model, refused or accepted fields, a profile that
\* is absent, valid or no profile, and a profile name that is absent,
\* that of a profile or blank.
BinderArguments ==
    {RegisterArgument(db_profile, db_profile_name, db_fields, model) :
        db_profile \in {None, Object,
                        DatabaseProfile(Str(<<"p", "1">>), SystemSqlite, UserA)},
        db_profile_name \in {None, EmptyStr, Str(<<"p", "1">>)},
        db_fields \in {None, Dict(<<>>), ValidFields},
        model \in {None, ModelClass("str", FALSE), DummyModel}}

\* The error_to_raise argument of the validation methods: DataMapperError,
\* which is the default, and its subclasses in the two registries.
ErrorFamilies ==
    {"DataMapperError", "RegisterDatabaseError", "RegisterProfileError",
     "GetDatabaseError", "GetProfileError", "RegisterMapperError",
     "GetMapperError"}

\* The calls of the thread that changes DatabaseRegistry while two other
\* threads look up a driver and the last registered profile.
WriterCalls ==
    {[op |-> "clear", pc |-> "clear_databases"]}
    \cup {[op |-> "register_database", pc |-> "set_database",
            database |-> SQLiteDatabase],
          [op |-> "register_profile", pc |-> "validate_profile",
            profile |-> DatabaseProfile(Str(<<"p", "1">>), SystemSqlite, UserA)]}

\* The arguments of get_database in the thread that looks up a driver: a
\* profile, a profile name, or neither.
ThreadGetDatabaseArguments ==
    {[profile_name |-> None,
      profile |-> DatabaseProfile(Str(<<"p", "1">>), SystemSqlite, UserA)],
     [profile_name |-> Str(<<"p", "1">>), profile |-> None],
     [profile_name |-> None, profile |-> None]}

\* A thread that is in no call.
Idle == [pc |-> "idle"]

-----------------------------------------------------------------------------
(* The state machine.                                                      *)

Init ==
    /\ registered_databases = EmptyDict
    /\ registered_profiles = EmptyDict
    /\ is_initialized = FALSE
    /\ registered_mappers = EmptyDict
    /\ mapper_is_initialized = FALSE
    /\ call = [op |-> "none"]
    /\ result = Return(None)

Clear ==
    \E state \in {clear(registered_databases, registered_profiles, is_initialized)} :
        /\ call' = [op |-> "clear"]
        /\ result' = state.outcome
        /\ registered_databases' = state.databases
        /\ registered_profiles' = state.profiles
        /\ is_initialized' = state.initialized
        /\ UNCHANGED mapper_vars

Initialize ==
    \E path \in FileArguments :
        \E state \in {initialize(registered_databases, registered_profiles,
                                is_initialized, path)} :
            /\ call' = [op |-> "initialize", profiles_file_path |-> path]
            /\ result' = state.outcome
            /\ registered_databases' = state.databases
            /\ registered_profiles' = state.profiles
            /\ is_initialized' = state.initialized
            /\ UNCHANGED mapper_vars

\* initialize with a path that does not exist, with a file of up to
\* MaxLines lines or with a file of three sections.
InitializeFromFile ==
    \E path \in FileSources \cup {FileSecondRefused} :
        \E state \in {initialize(registered_databases, registered_profiles,
                                is_initialized, path)} :
            /\ call' = [op |-> "initialize", profiles_file_path |-> path]
            /\ result' = state.outcome
            /\ registered_databases' = state.databases
            /\ registered_profiles' = state.profiles
            /\ is_initialized' = state.initialized
            /\ UNCHANGED mapper_vars

RegisterDatabase ==
    \E database \in DatabaseArguments :
        \E state \in {register_database(registered_databases, registered_profiles,
                                       is_initialized, database)} :
            /\ call' = [op |-> "register_database", database |-> database]
            /\ result' = state.outcome
            /\ registered_databases' = state.databases
            /\ registered_profiles' = state.profiles
            /\ is_initialized' = state.initialized
            /\ UNCHANGED mapper_vars

\* register_database with the driver of the tests, which replaces and is
\* replaced by MySQLDatabase.
RegisterDummyDatabase ==
    \E state \in {register_database(registered_databases, registered_profiles,
                                   is_initialized, DummyDatabase)} :
        /\ call' = [op |-> "register_database", database |-> DummyDatabase]
        /\ result' = state.outcome
        /\ registered_databases' = state.databases
        /\ registered_profiles' = state.profiles
        /\ is_initialized' = state.initialized
        /\ UNCHANGED mapper_vars

\* register_database with a driver of a caller whose system has no
\* built-in driver.
RegisterOtherDatabase ==
    \E state \in {register_database(registered_databases, registered_profiles,
                                   is_initialized, PostgreSQLDatabase)} :
        /\ call' = [op |-> "register_database", database |-> PostgreSQLDatabase]
        /\ result' = state.outcome
        /\ registered_databases' = state.databases
        /\ registered_profiles' = state.profiles
        /\ is_initialized' = state.initialized
        /\ UNCHANGED mapper_vars

\* register_profile with a profile whose system has no built-in driver.
RegisterProfileOfOtherSystem ==
    \E profile \in ProfilesOf(ProfileNames, {SystemPostgresql}) :
        \E state \in {register_profile(registered_databases, registered_profiles,
                                      is_initialized, profile)} :
            /\ call' = [op |-> "register_profile", profile |-> profile]
            /\ result' = state.outcome
            /\ registered_databases' = state.databases
            /\ registered_profiles' = state.profiles
            /\ is_initialized' = state.initialized
            /\ UNCHANGED mapper_vars

RegisterProfile ==
    \E profile \in ProfileArguments :
        \E state \in {register_profile(registered_databases, registered_profiles,
                                      is_initialized, profile)} :
            /\ call' = [op |-> "register_profile", profile |-> profile]
            /\ result' = state.outcome
            /\ registered_databases' = state.databases
            /\ registered_profiles' = state.profiles
            /\ is_initialized' = state.initialized
            /\ UNCHANGED mapper_vars

\* get_database with a profile name, a profile, both or neither; the
\* profile is valid, invalid, or valid up to the letter case or the
\* surrounding white space of its system.
GetDatabase ==
    \E profile_name \in ProfileNameArguments,
       profile \in GetDatabaseProfileArguments :
        /\ call' = [op |-> "get_database", profile_name |-> profile_name,
                    profile |-> profile]
        /\ result' = get_database(registered_databases, registered_profiles,
                                  profile_name, profile)
        /\ UNCHANGED <<db_vars, mapper_vars>>

\* get_database with a profile and no profile name.
GetDatabaseOfProfile ==
    \E profile \in GetDatabaseProfileArguments :
        /\ call' = [op |-> "get_database", profile_name |-> None,
                    profile |-> profile]
        /\ result' = get_database(registered_databases, registered_profiles,
                                  None, profile)
        /\ UNCHANGED <<db_vars, mapper_vars>>

GetProfile ==
    \E profile_name \in ProfileNameArguments \cup {PaddedName} :
        /\ call' = [op |-> "get_profile", profile_name |-> profile_name]
        /\ result' = get_profile(registered_profiles, profile_name)
        /\ UNCHANGED <<db_vars, mapper_vars>>

GetFirstRegisteredProfile ==
    /\ call' = [op |-> "get_first_registered_profile"]
    /\ result' = get_first_registered_profile(registered_profiles)
    /\ UNCHANGED <<db_vars, mapper_vars>>

GetLastRegisteredProfile ==
    /\ call' = [op |-> "get_last_registered_profile"]
    /\ result' = get_last_registered_profile(registered_profiles)
    /\ UNCHANGED <<db_vars, mapper_vars>>

\* validate_profile with every profile of register_profile and with
\* profiles whose system has surrounding white space.
ValidateProfile ==
    \E profile \in ProfileArguments \cup ProfilesOf(ProfileNames, PaddedSystems) :
        /\ call' = [op |-> "validate_profile", profile |-> profile]
        /\ result' = validate_profile(registered_databases, profile,
                                      "DataMapperError")
        /\ UNCHANGED <<db_vars, mapper_vars>>

MapperClear ==
    \E state \in {mapper_clear(registered_mappers, mapper_is_initialized)} :
        /\ call' = [op |-> "MapperRegistry.clear"]
        /\ result' = state.outcome
        /\ registered_mappers' = state.mappers
        /\ mapper_is_initialized' = state.initialized
        /\ UNCHANGED db_vars

MapperInitialize ==
    \E state \in {mapper_initialize(registered_mappers, mapper_is_initialized)} :
        /\ call' = [op |-> "MapperRegistry.initialize"]
        /\ result' = state.outcome
        /\ registered_mappers' = state.mappers
        /\ mapper_is_initialized' = state.initialized
        /\ UNCHANGED db_vars

\* The decorator of register, applied with an argument that is refused or
\* with arguments that are all accepted.
Register ==
    \E arguments \in RegisterArguments :
        \E state \in {register(registered_mappers, mapper_is_initialized,
                              registered_databases, registered_profiles,
                              arguments.db_profile, arguments.db_profile_name,
                              arguments.db_fields, arguments.model)} :
            /\ call' = [op |-> "register", db_profile |-> arguments.db_profile,
                        db_profile_name |-> arguments.db_profile_name,
                        db_fields |-> arguments.db_fields,
                        model |-> arguments.model]
            /\ result' = state.outcome
            /\ registered_mappers' = state.mappers
            /\ mapper_is_initialized' = state.initialized
            /\ UNCHANGED db_vars

\* The decorator of register, applied with any combination of refused
\* and accepted arguments.
RegisterWithAnyArguments ==
    \E arguments \in BinderArguments :
        \E state \in {register(registered_mappers, mapper_is_initialized,
                              registered_databases, registered_profiles,
                              arguments.db_profile, arguments.db_profile_name,
                              arguments.db_fields, arguments.model)} :
            /\ call' = [op |-> "register", db_profile |-> arguments.db_profile,
                        db_profile_name |-> arguments.db_profile_name,
                        db_fields |-> arguments.db_fields,
                        model |-> arguments.model]
            /\ result' = state.outcome
            /\ registered_mappers' = state.mappers
            /\ mapper_is_initialized' = state.initialized
            /\ UNCHANGED db_vars

GetMapper ==
    \E model \in ModelArguments :
        /\ call' = [op |-> "get_mapper", model |-> model]
        /\ result' = get_mapper(registered_mappers, model)
        /\ UNCHANGED <<db_vars, mapper_vars>>

\* get_mapper with a model class or its subclass.
GetStoredMapper ==
    \E model \in ModelArguments \cup {SubModel} :
        /\ call' = [op |-> "get_mapper", model |-> model]
        /\ result' = get_mapper(registered_mappers, model)
        /\ UNCHANGED <<db_vars, mapper_vars>>

\* The validation methods, each called with an argument and an error to
\* raise.
ValidateDatabaseAs ==
    \E database \in DatabaseArguments, error_to_raise \in ErrorFamilies :
        /\ call' = [op |-> "validate_database", argument |-> database,
                    error_to_raise |-> error_to_raise]
        /\ result' = validate_database(database, error_to_raise)
        /\ UNCHANGED <<db_vars, mapper_vars>>

ValidateProfileAs ==
    \E profile \in ProfileArguments, error_to_raise \in ErrorFamilies :
        /\ call' = [op |-> "validate_profile", argument |-> profile,
                    error_to_raise |-> error_to_raise]
        /\ result' = validate_profile(registered_databases, profile,
                                      error_to_raise)
        /\ UNCHANGED <<db_vars, mapper_vars>>

ValidateProfileNameAs ==
    \E name \in ProfileNameArguments, error_to_raise \in ErrorFamilies :
        /\ call' = [op |-> "validate_profile_name", argument |-> name,
                    error_to_raise |-> error_to_raise]
        /\ result' = validate_profile_name(registered_profiles, name,
                                           error_to_raise)
        /\ UNCHANGED <<db_vars, mapper_vars>>

ValidateModelAs ==
    \E model \in ModelArguments, error_to_raise \in ErrorFamilies :
        /\ call' = [op |-> "validate_model", argument |-> model,
                    error_to_raise |-> error_to_raise]
        /\ result' = validate_model(model, error_to_raise)
        /\ UNCHANGED <<db_vars, mapper_vars>>

ValidateFieldsAs ==
    \E db_fields \in FieldsArguments, error_to_raise \in ErrorFamilies :
        /\ call' = [op |-> "validate_fields", argument |-> db_fields,
                    error_to_raise |-> error_to_raise]
        /\ result' = validate_fields(db_fields, error_to_raise)
        /\ UNCHANGED <<db_vars, mapper_vars>>

ReadProfilesFromFile ==
    \E path \in FileSources :
        /\ call' = [op |-> "read_profiles_from_file", path |-> path]
        /\ result' = read_profiles_from_file(path)
        /\ UNCHANGED <<db_vars, mapper_vars>>

ValidateFields ==
    \E db_fields \in FieldMappings :
        /\ call' = [op |-> "validate_fields", db_fields |-> db_fields]
        /\ result' = validate_fields(db_fields, "DataMapperError")
        /\ UNCHANGED <<db_vars, mapper_vars>>

-----------------------------------------------------------------------------
(* Three threads on DatabaseRegistry without any lock: one in            *)
(* get_database, one in get_last_registered_profile, one in clear,        *)
(* register_database or register_profile.  A step is one statement that   *)
(* reads or writes an attribute of the registry.  Here call gives the     *)
(* call each thread is in, with the statement it is at (pc), and result   *)
(* the outcome of the last call each thread has finished.  The fields     *)
(* written and cleared of a call in progress record whether a statement   *)
(* of another thread has changed a mapping, or has cleared one, since the *)
(* call began.                                                            *)

InitThreads ==
    /\ \E path \in {None, FileTwoProfiles} :
          \E state \in {initialize(EmptyDict, EmptyDict, FALSE, path)} :
              /\ registered_databases = state.databases
              /\ registered_profiles = state.profiles
              /\ is_initialized = state.initialized
    /\ registered_mappers = EmptyDict
    /\ mapper_is_initialized = FALSE
    /\ call = [get_database |-> Idle, get_last_registered_profile |-> Idle,
               writer |-> Idle]
    /\ result = [get_database |-> Return(None),
                 get_last_registered_profile |-> Return(None),
                 writer |-> Return(None)]

\* The call of a thread after a statement of the writer that changes a
\* mapping (has_cleared: by clear()).
Disturbed(frame, has_cleared) ==
    IF frame.pc = "idle" THEN frame
    ELSE [frame EXCEPT !.written = TRUE,
                       !.cleared = frame.cleared \/ has_cleared]

\* The get_database thread goes on to statement pc with the profile it
\* has chosen so far.
GetDatabaseGoesTo(pc, profile) ==
    /\ call' = [call EXCEPT !.get_database.pc = pc,
                            !.get_database.chosen = profile]
    /\ UNCHANGED <<result, db_vars, mapper_vars>>

\* The call of the get_database thread ends with an outcome.
GetDatabaseEnds(outcome) ==
    /\ call' = [call EXCEPT !.get_database = Idle]
    /\ result' = [result EXCEPT !.get_database = outcome]
    /\ UNCHANGED <<db_vars, mapper_vars>>

\* get_database is called: `if profile_name is not None`, `if profile is
\* None` choose the first statement that reads the registry.
ThreadGetDatabaseCall ==
    /\ call.get_database.pc = "idle"
    /\ \E arguments \in ThreadGetDatabaseArguments :
          /\ call' = [call EXCEPT !.get_database =
                        [pc |-> IF arguments.profile_name # None
                                THEN "validate_profile_name"
                                ELSE IF arguments.profile = None
                                THEN "last_check"
                                ELSE "validate_profile",
                         profile_name |-> arguments.profile_name,
                         profile |-> arguments.profile,
                         chosen |-> arguments.profile,
                         written |-> FALSE, cleared |-> FALSE]]
          /\ UNCHANGED <<result, db_vars, mapper_vars>>

\* get_profile: validate_profile_name(profile_name, GetProfileError).
ThreadValidateProfileName ==
    /\ call.get_database.pc = "validate_profile_name"
    /\ \E validated \in {validate_profile_name(registered_profiles,
                             call.get_database.profile_name, "GetProfileError")} :
          IF Returned(validated)
          THEN GetDatabaseGoesTo("read_profile", call.get_database.chosen)
          ELSE GetDatabaseEnds(validated)

\* get_profile: `return cls.registered_profiles.get(profile_name)`, then
\* `if profile is None` of get_database.
ThreadReadProfile ==
    /\ call.get_database.pc = "read_profile"
    /\ \E profile \in {read_profile(registered_profiles,
                                   call.get_database.profile_name)} :
          GetDatabaseGoesTo(IF profile = None THEN "last_check"
                            ELSE "validate_profile", profile)

\* get_last_registered_profile in get_database: the test for no profile.
ThreadGetDatabaseLastCheck ==
    /\ call.get_database.pc = "last_check"
    /\ \E checked \in {check_profiles_registered(registered_profiles)} :
          IF Returned(checked)
          THEN GetDatabaseGoesTo("last_read", call.get_database.chosen)
          ELSE GetDatabaseEnds(checked)

\* get_last_registered_profile in get_database: the read of the last
\* profile.
ThreadGetDatabaseLastRead ==
    /\ call.get_database.pc = "last_read"
    /\ \E read \in {read_last_profile(registered_profiles)} :
          IF Returned(read)
          THEN GetDatabaseGoesTo("validate_profile", read.value)
          ELSE GetDatabaseEnds(read)

\* validate_profile(profile, GetDatabaseError), which reads
\* registered_databases once.
ThreadValidateProfile ==
    /\ call.get_database.pc = "validate_profile"
    /\ \E validated \in {validate_profile(registered_databases,
                             call.get_database.chosen, "GetDatabaseError")} :
          IF Returned(validated)
          THEN GetDatabaseGoesTo("instantiate", call.get_database.chosen)
          ELSE GetDatabaseEnds(validated)

\* `return cls.registered_databases[profile.system](profile)`
ThreadInstantiate ==
    /\ call.get_database.pc = "instantiate"
    /\ GetDatabaseEnds(instantiate_database(registered_databases,
                                            call.get_database.chosen))

\* get_last_registered_profile is called by its own thread.
ThreadLastCall ==
    /\ call.get_last_registered_profile.pc = "idle"
    /\ call' = [call EXCEPT !.get_last_registered_profile =
                  [pc |-> "last_check", written |-> FALSE, cleared |-> FALSE]]
    /\ UNCHANGED <<result, db_vars, mapper_vars>>

ThreadLastCheck ==
    /\ call.get_last_registered_profile.pc = "last_check"
    /\ \E checked \in {check_profiles_registered(registered_profiles)} :
          IF Returned(checked)
          THEN /\ call' = [call EXCEPT !.get_last_registered_profile.pc = "last_read"]
               /\ UNCHANGED <<result, db_vars, mapper_vars>>
          ELSE /\ call' = [call EXCEPT !.get_last_registered_profile = Idle]
               /\ result' = [result EXCEPT !.get_last_registered_profile = checked]
               /\ UNCHANGED <<db_vars, mapper_vars>>

ThreadLastRead ==
    /\ call.get_last_registered_profile.pc = "last_read"
    /\ call' = [call EXCEPT !.get_last_registered_profile = Idle]
    /\ result' = [result EXCEPT !.get_last_registered_profile =
                     read_last_profile(registered_profiles)]
    /\ UNCHANGED <<db_vars, mapper_vars>>

\* The writer thread calls clear, register_database or register_profile.
WriterCall ==
    /\ call.writer.pc = "idle"
    /\ \E frame \in WriterCalls : call' = [call EXCEPT !.writer = frame]
    /\ UNCHANGED <<result, db_vars, mapper_vars>>

\* The calls of the other threads after a statement of the writer that
\* goes on to statement pc, or ends its call if pc is "idle".
AfterWrite(pc, has_cleared) ==
    /\ call' = [get_database |-> Disturbed(call.get_database, has_cleared),
                get_last_registered_profile |->
                    Disturbed(call.get_last_registered_profile, has_cleared),
                writer |-> IF pc = "idle" THEN Idle
                           ELSE [call.writer EXCEPT !.pc = pc]]
    /\ result' = IF pc = "idle" THEN [result EXCEPT !.writer = Return(None)]
                 ELSE result

\* clear: `cls.registered_databases.clear()`
WriterClearDatabases ==
    /\ call.writer.pc = "clear_databases"
    /\ registered_databases' = EmptyDict
    /\ AfterWrite("clear_profiles", TRUE)
    /\ UNCHANGED <<registered_profiles, is_initialized, mapper_vars>>

\* clear: `cls.registered_profiles.clear()`
WriterClearProfiles ==
    /\ call.writer.pc = "clear_profiles"
    /\ registered_profiles' = EmptyDict
    /\ AfterWrite("clear_flag", TRUE)
    /\ UNCHANGED <<registered_databases, is_initialized, mapper_vars>>

\* clear: `cls.is_initialized = False`
WriterClearFlag ==
    /\ call.writer.pc = "clear_flag"
    /\ is_initialized' = FALSE
    /\ call' = [call EXCEPT !.writer = Idle]
    /\ result' = [result EXCEPT !.writer = Return(None)]
    /\ UNCHANGED <<registered_databases, registered_profiles, mapper_vars>>

\* register_database of a built-in driver, whose validation reads no
\* attribute of the registry: `cls.registered_databases[db_system_str] =
\* database`.
WriterSetDatabase ==
    /\ call.writer.pc = "set_database"
    /\ \E state \in {register_database(registered_databases, registered_profiles,
                                      is_initialized, call.writer.database)} :
          registered_databases' = state.databases
    /\ AfterWrite("idle", FALSE)
    /\ UNCHANGED <<registered_profiles, is_initialized, mapper_vars>>

\* register_profile: validate_profile(profile, RegisterProfileError).
WriterValidateProfile ==
    /\ call.writer.pc = "validate_profile"
    /\ \E validated \in {validate_profile(registered_databases,
                             call.writer.profile, "RegisterProfileError")} :
          IF Returned(validated)
          THEN /\ call' = [call EXCEPT !.writer.pc = "set_profile"]
               /\ UNCHANGED result
          ELSE /\ call' = [call EXCEPT !.writer = Idle]
               /\ result' = [result EXCEPT !.writer = validated]
    /\ UNCHANGED <<db_vars, mapper_vars>>

\* register_profile: `cls.registered_profiles[profile.name] = profile`
WriterSetProfile ==
    /\ call.writer.pc = "set_profile"
    /\ registered_profiles' = SetItem(registered_profiles,
                                      call.writer.profile.name, call.writer.profile)
    /\ AfterWrite("idle", FALSE)
    /\ UNCHANGED <<registered_databases, is_initialized, mapper_vars>>

NextThreads ==
    \/ ThreadGetDatabaseCall
    \/ ThreadValidateProfileName
    \/ ThreadReadProfile
    \/ ThreadGetDatabaseLastCheck
    \/ ThreadGetDatabaseLastRead
    \/ ThreadValidateProfile
    \/ ThreadInstantiate
    \/ ThreadLastCall
    \/ ThreadLastCheck
    \/ ThreadLastRead
    \/ WriterCall
    \/ WriterClearDatabases
    \/ WriterClearProfiles
    \/ WriterClearFlag
    \/ WriterSetDatabase
    \/ WriterValidateProfile
    \/ WriterSetProfile

SpecThreads == InitThreads /\ [][NextThreads]_vars

-----------------------------------------------------------------------------
\* The calls that change DatabaseRegistry.
DatabaseRegistryNext ==
    \/ Clear
    \/ Initialize
    \/ RegisterDatabase
    \/ RegisterProfile

\* Both registries: every call that changes one of them, and the lookups
\* of profiles and mappers.
Next ==
    \/ DatabaseRegistryNext
    \/ GetProfile
    \/ GetFirstRegisteredProfile
    \/ GetLastRegisteredProfile
    \/ MapperClear
    \/ MapperInitialize
    \/ Register
    \/ GetMapper

Spec == Init /\ [][Next]_vars

\* Both registries with every call of Next, get_database with a profile
\* and validate_profile.
NextLifecycle ==
    \/ Next
    \/ GetDatabaseOfProfile
    \/ ValidateProfile

SpecLifecycle == Init /\ [][NextLifecycle]_vars

\* DatabaseRegistry with get_database.
NextGetDatabase ==
    \/ DatabaseRegistryNext
    \/ GetDatabase

SpecGetDatabase == Init /\ [][NextGetDatabase]_vars

\* DatabaseRegistry with validate_profile.
NextValidate ==
    \/ DatabaseRegistryNext
    \/ ValidateProfile

SpecValidate == Init /\ [][NextValidate]_vars

\* DatabaseRegistry with two drivers of one system, and get_database with
\* a profile.
NextDrivers ==
    \/ DatabaseRegistryNext
    \/ RegisterDummyDatabase
    \/ GetDatabaseOfProfile

SpecDrivers == Init /\ [][NextDrivers]_vars

\* get_mapper as a function of the content of registered_mappers and of
\* the model: the content is drawn from StoredMappers.
InitGetMapper ==
    /\ registered_databases = EmptyDict
    /\ registered_profiles = EmptyDict
    /\ is_initialized = FALSE
    /\ registered_mappers \in StoredMappers
    /\ mapper_is_initialized = FALSE
    /\ call = [op |-> "none"]
    /\ result = Return(None)

NextGetMapper ==
    \/ GetStoredMapper
    \/ Register
    \/ MapperClear
    \/ MapperInitialize
    \/ Initialize

SpecGetMapper == InitGetMapper /\ [][NextGetMapper]_vars

\* The decorator of register with any combination of arguments, applied
\* to a MapperRegistry whose mappers are drawn from StoredMappers, while
\* initialize and clear change DatabaseRegistry.
NextBinder ==
    \/ RegisterWithAnyArguments
    \/ Initialize
    \/ Clear

SpecBinder == InitGetMapper /\ [][NextBinder]_vars

\* validate_fields as a function of its argument.
NextValidateFields == ValidateFields

SpecValidateFields == Init /\ [][NextValidateFields]_vars

\* DatabaseRegistry with a driver and profiles of a system that has no
\* built-in driver.
NextRegistrations ==
    \/ DatabaseRegistryNext
    \/ RegisterOtherDatabase
    \/ RegisterProfileOfOtherSystem

SpecRegistrations == Init /\ [][NextRegistrations]_vars

\* initialize with the files of FileSources, from the states that
\* initialize, clear and the registration of another driver reach.
NextInitialize ==
    \/ InitializeFromFile
    \/ Clear
    \/ RegisterDummyDatabase

SpecInitialize == Init /\ [][NextInitialize]_vars

\* The validation methods with every error to raise, in the states of
\* DatabaseRegistry that initialize and clear reach.
NextValidation ==
    \/ ValidateDatabaseAs
    \/ ValidateProfileAs
    \/ ValidateProfileNameAs
    \/ ValidateModelAs
    \/ ValidateFieldsAs
    \/ Initialize
    \/ Clear

SpecValidation == Init /\ [][NextValidation]_vars

\* read_profiles_from_file as a function of the file at its path.
NextReadProfiles == ReadProfilesFromFile

SpecReadProfiles == Init /\ [][NextReadProfiles]_vars

-----------------------------------------------------------------------------
(* Properties.                                                             *)

\* The last call was get_database.
CalledGetDatabase == call.op = "get_database"

\* validate_profile accepts the value in the current registry state.
IsValidProfile(profile) ==
    Returned(validate_profile(registered_databases, profile, "DataMapperError"))

\* C1: whenever get_database is called with a profile name that is not
\* blank and under which no profile is registered, it raises
\* GetProfileError with code 2, whatever the profile argument is; the
\* profile argument is not used instead.
C1_UnregisteredNameRaisesCode2 ==
    (/\ CalledGetDatabase
     /\ call.profile_name # None
     /\ ~IsBlank(call.profile_name)
     /\ ~Contains(registered_profiles, call.profile_name))
    => result = Raise("GetProfileError", 2)

\* get_database was called with an unregistered name and a profile that
\* validate_profile accepts while another profile is registered, and
\* raised GetProfileError with code 2.
C1_Witness ==
    /\ CalledGetDatabase
    /\ call.profile_name = Str(<<"p", "2">>)
    /\ ~Contains(registered_profiles, call.profile_name)
    /\ Len(registered_profiles) = 1
    /\ IsValidProfile(call.profile)
    /\ result = Raise("GetProfileError", 2)

\* C2: whenever get_database is called with a blank profile name (the
\* empty string or white space only), it raises GetProfileError with code
\* 1, whatever the profile argument is and whatever is registered.
C2_BlankNameRaisesCode1 ==
    (/\ CalledGetDatabase
     /\ call.profile_name # None
     /\ IsBlank(call.profile_name))
    => result = Raise("GetProfileError", 1)

\* get_database was called with the empty string as name and a profile
\* that validate_profile accepts while profiles are registered, and
\* raised GetProfileError with code 1.
C2_Witness ==
    /\ CalledGetDatabase
    /\ call.profile_name = EmptyStr
    /\ IsValidProfile(call.profile)
    /\ Len(registered_profiles) = 2
    /\ result = Raise("GetProfileError", 1)

\* The profile the last get_database call resolves to: the profile
\* registered under the given name, else the given profile, else the last
\* registered profile; an error outcome where there is none.
ResolvedProfile ==
    IF call.profile_name # None
    THEN get_profile(registered_profiles, call.profile_name)
    ELSE IF call.profile # None
         THEN Return(call.profile)
         ELSE get_last_registered_profile(registered_profiles)

\* The key validate_profile looks the driver of a system up with: the
\* system in lower case, without surrounding white space.
DriverKey(system) == Str(Strip(Lower(system.chars)))

\* The outcome is a new instance of the driver registered for the system of
\* the profile, wrapping the profile.
ReturnsDriverFor(outcome, profile) ==
    /\ Returned(outcome)
    /\ outcome.value.kind = "instance"
    /\ outcome.value.db_profile = profile
    /\ Contains(registered_databases, DriverKey(profile.system))
    /\ outcome.value.class = Lookup(registered_databases, DriverKey(profile.system))

\* C3: whenever get_database is called with the name of a registered
\* profile R and with a different valid profile Q, it returns an instance
\* of the driver of R's system that wraps R.
C3_NamedProfileWins ==
    (/\ CalledGetDatabase
     /\ call.profile_name # None
     /\ Contains(registered_profiles, call.profile_name)
     /\ IsValidProfile(call.profile)
     /\ call.profile # Lookup(registered_profiles, call.profile_name))
    => ReturnsDriverFor(result, Lookup(registered_profiles, call.profile_name))

\* C4: whenever get_database is called with no profile name and no profile
\* while profiles are registered, it returns an instance of the driver of
\* the last registered profile's system that wraps that profile.
C4_LastRegisteredProfileWins ==
    (/\ CalledGetDatabase
     /\ call.profile_name = None
     /\ call.profile = None
     /\ Len(registered_profiles) >= 1)
    => ReturnsDriverFor(result,
                        registered_profiles[Len(registered_profiles)].value)

\* C7: whenever get_database resolves to a profile that validate_profile
\* accepts in the current registry state, it returns an instance of the
\* driver registered under the lowercased, trimmed system of the profile,
\* wrapping the profile; it does not fail once validation has succeeded.
C7_ValidatedProfileGetsDriver ==
    (/\ CalledGetDatabase
     /\ Returned(ResolvedProfile)
     /\ IsValidProfile(ResolvedProfile.value))
    => ReturnsDriverFor(result, ResolvedProfile.value)

\* A step is a successful register_profile call with a name that was
\* registered before the call.
ReRegistersProfile ==
    /\ call'.op = "register_profile"
    /\ Returned(result')
    /\ Contains(registered_profiles, call'.profile.name)

\* C5: every register_profile call with a name that is already registered
\* makes get_profile(name) return the new profile, leaves the number of
\* registered profiles unchanged, and leaves the entry in the position of
\* the first registration of the name: the order of the names, and the
\* names of the first and of the last registered profile, are what they
\* were before the call.
C5_ReRegistrationKeepsSlot ==
    [][ReRegistersProfile =>
          /\ get_profile(registered_profiles', call'.profile.name)
                = Return(call'.profile)
          /\ Len(registered_profiles') = Len(registered_profiles)
          /\ \A i \in DOMAIN registered_profiles :
                registered_profiles'[i].key = registered_profiles[i].key
          /\ get_first_registered_profile(registered_profiles').value.name
                = get_first_registered_profile(registered_profiles).value.name
          /\ get_last_registered_profile(registered_profiles').value.name
                = get_last_registered_profile(registered_profiles).value.name
          /\ \A name \in ProfileNames \ {call'.profile.name} :
                get_profile(registered_profiles', name)
                   = get_profile(registered_profiles, name)]_vars

\* register_profile has just succeeded with a profile that is the first of
\* two registered profiles: its name was registered before the other
\* profile, so the call registered the name again, and the profile is
\* still the first and not the last registered one.
C5_Witness ==
    /\ call.op = "register_profile"
    /\ Returned(result)
    /\ Len(registered_profiles) = 2
    /\ get_first_registered_profile(registered_profiles) = Return(call.profile)
    /\ get_last_registered_profile(registered_profiles) # Return(call.profile)
    /\ get_profile(registered_profiles, call.profile.name) = Return(call.profile)

\* The driver has a constructor that takes the profile.
TakesProfile(database) == Returned(Construct(database, None))

\* get_database(profile = p) is called with a profile whose name is not
\* blank and whose system is the recognized system of the driver.
GetsDatabaseOfSystem(c, database) ==
    /\ c.op = "get_database"
    /\ c.profile_name = None
    /\ IsDatabaseProfile(c.profile)
    /\ ~IsBlank(c.profile.name)
    /\ c.profile.system = database.system.value

PassesMysqlProfile ==
    /\ call.op \in {"validate_profile", "register_profile"}
    /\ call.profile # None
    /\ IsDatabaseProfile(call.profile)
    /\ ~IsBlank(call.profile.name)
    /\ IsStr(call.profile.system)
    /\ Lower(call.profile.system.chars) = SystemMysql.chars
    /\ Contains(registered_databases, SystemMysql)

\* C8: with a driver registered under the key "mysql", validate_profile
\* accepts every profile whose system is "mysql" in any letter case and
\* returns the profile it was given, and register_profile accepts it and
\* stores it under its name.
C8_SystemMatchIgnoresCase ==
    PassesMysqlProfile =>
        /\ call.op = "validate_profile" => result = Return(call.profile)
        /\ call.op = "register_profile" =>
              /\ Returned(result)
              /\ get_profile(registered_profiles, call.profile.name)
                    = Return(call.profile)

\* validate_profile has returned the profile it was given, a profile with
\* the system "mYsQl", while the driver is registered under "mysql".
C8_Witness ==
    /\ PassesMysqlProfile
    /\ call.op = "validate_profile"
    /\ call.profile.system = Str(<<"m", "Y", "s", "Q", "l">>)
    /\ result = Return(call.profile)

\* C9: every DatabaseRegistry.clear call, from whatever state it is made,
\* ends with no registered driver, no registered profile and
\* is_initialized false; every MapperRegistry.clear call ends with no
\* registered mapper and is_initialized false.
C9_ClearEmptiesRegistry ==
    [][/\ call'.op = "clear" =>
            /\ registered_databases' = EmptyDict
            /\ registered_profiles' = EmptyDict
            /\ is_initialized' = FALSE
            /\ UNCHANGED mapper_vars
       /\ call'.op = "MapperRegistry.clear" =>
            /\ registered_mappers' = EmptyDict
            /\ mapper_is_initialized' = FALSE
            /\ UNCHANGED db_vars]_vars

\* DatabaseRegistry.clear has just been called and has left an empty
\* registry, while the MapperRegistry, initialized before, is untouched.
C9_Witness ==
    /\ call.op = "clear"
    /\ registered_databases = EmptyDict
    /\ registered_profiles = EmptyDict
    /\ ~is_initialized
    /\ mapper_is_initialized

\* The state of DatabaseRegistry after initialize() on a fresh registry.
InitializedDatabases ==
    SetItem(SetItem(EmptyDict, MYSQL.value, MySQLDatabase),
            SQLITE.value, SQLiteDatabase)

\* C10: every initialize call without a profiles file, from whatever state
\* it is made, ends with exactly the built-in drivers MySQLDatabase and
\* SQLiteDatabase registered, no registered profile and is_initialized
\* true: what was registered before is discarded, and a second call
\* gives the state of the first.
C10_InitializeWithoutProfiles ==
    [][(call'.op = "initialize" /\ call'.profiles_file_path = None) =>
            /\ Returned(result')
            /\ registered_databases' = InitializedDatabases
            /\ Len(registered_databases') >= 1
            /\ registered_profiles' = EmptyDict
            /\ is_initialized' = TRUE
            /\ initialize(registered_databases', registered_profiles',
                          is_initialized', None)
                  = DbState(registered_databases', registered_profiles',
                            is_initialized', Return(None))]_vars

\* initialize() has just been called and has left the two built-in
\* drivers, no profile and is_initialized true.
C10_Witness ==
    /\ call.op = "initialize"
    /\ call.profiles_file_path = None
    /\ Len(registered_databases) = 2
    /\ Contains(registered_databases, SystemMysql)
    /\ Contains(registered_databases, SystemSqlite)
    /\ registered_profiles = EmptyDict
    /\ is_initialized
    /\ mapper_is_initialized

\* The names of the sections of a file, in file order.
SectionNames(file) ==
    LET headers == SelectSeq(file.lines, LAMBDA l : l.line = "section")
    IN  [i \in DOMAIN headers |-> headers[i].name]

\* C11: whenever initialize has succeeded with a profiles file of N
\* sections, exactly N profiles are registered, the i-th under the name of
\* the i-th section; and if N >= 1, get_first_registered_profile gives the
\* profile of the first section, get_last_registered_profile the profile
\* of the last section, and get_database() returns an instance of the
\* driver of the last section's system.
C11_ProfilesInFileOrder ==
    (/\ call.op = "initialize"
     /\ call.profiles_file_path # None
     /\ Returned(result))
    => LET names == SectionNames(call.profiles_file_path)
           N == Len(names)
       IN  /\ Len(registered_profiles) = N
           /\ \A i \in 1..N : registered_profiles[i].key = names[i]
           /\ \A i \in 1..N : registered_profiles[i].value.name = names[i]
           /\ N >= 1 =>
                /\ get_first_registered_profile(registered_profiles)
                      = Return(registered_profiles[1].value)
                /\ get_last_registered_profile(registered_profiles)
                      = Return(registered_profiles[N].value)
                /\ ReturnsDriverFor(
                      get_database(registered_databases, registered_profiles,
                                   None, None),
                      registered_profiles[N].value)

\* The binder of register is applied with a model and fields that pass
\* validation and with a profile or profile name for which get_database
\* returns a driver instance in the current state of DatabaseRegistry.
AppliesBinderToValidArguments ==
    /\ call.op = "register"
    /\ Returned(validate_model(call.model, "RegisterMapperError"))
    /\ Returned(validate_fields(call.db_fields, "RegisterMapperError"))
    /\ Returned(get_database(registered_databases, registered_profiles,
                             call.db_profile_name, call.db_profile))

\* The attribute database_fields of a mapper; None where it has none.
DatabaseFieldsOf(mapper) ==
    IF "database_fields" \in DOMAIN mapper THEN mapper.database_fields ELSE None

\* C12: whenever the binder of register(P, F) has been applied to a model M
\* with arguments that pass validation and a profile that resolves to a
\* driver, the application has succeeded and get_mapper(M) returns a
\* mapper whose database is the driver instance of P's system and whose
\* database_fields is F.
C12_RegisterThenGetMapper ==
    AppliesBinderToValidArguments =>
        /\ Returned(result)
        /\ Returned(get_mapper(registered_mappers, call.model))
        /\ get_mapper(registered_mappers, call.model).value.database
              = get_database(registered_databases, registered_profiles,
                             call.db_profile_name, call.db_profile).value
        /\ DatabaseFieldsOf(get_mapper(registered_mappers, call.model).value)
              = call.db_fields

\* A step applies the binder of register with a model and fields that pass
\* validation and with a profile or profile name for which get_database
\* returns a driver instance.
BinderStepWithValidArguments ==
    /\ call'.op = "register"
    /\ Returned(validate_model(call'.model, "RegisterMapperError"))
    /\ Returned(validate_fields(call'.db_fields, "RegisterMapperError"))
    /\ Returned(get_database(registered_databases, registered_profiles,
                             call'.db_profile_name, call'.db_profile))

\* C13: every application of the binder of register to a model M with
\* arguments that pass validation and a profile that resolves to a driver
\* returns M, stores a mapper under M (in place of the mapper stored for M
\* before, if there was one, so that the number of mappers does not grow
\* then), and leaves the mappers of the other models unchanged.
C13_RegisterStoresMapper ==
    [][BinderStepWithValidArguments =>
          /\ result' = Return(call'.model)
          /\ Contains(registered_mappers', call'.model)
          /\ Lookup(registered_mappers', call'.model).database
                = get_database(registered_databases, registered_profiles,
                               call'.db_profile_name, call'.db_profile).value
          /\ Len(registered_mappers')
                = IF Contains(registered_mappers, call'.model)
                  THEN Len(registered_mappers)
                  ELSE Len(registered_mappers) + 1
          /\ \A i \in DOMAIN registered_mappers :
                registered_mappers[i].key # call'.model
                   => registered_mappers'[i] = registered_mappers[i]]_vars

\* C14: every application of the binder of register to a model M with
\* arguments that pass validation and a profile that resolves to a driver
\* creates a mapper for M; and a mapper that is stored for a model is
\* what get_mapper returns for the model after every step that is not a
\* clear or initialize of MapperRegistry.
C14_MapperCreatedOnceAndKept ==
    /\ [][BinderStepWithValidArguments
             => Returned(get_mapper(registered_mappers', call'.model))]_vars
    /\ [][\A i \in DOMAIN registered_mappers :
             call'.op \notin {"MapperRegistry.clear", "MapperRegistry.initialize"}
                => get_mapper(registered_mappers', registered_mappers[i].key)
                      = Return(registered_mappers[i].value)]_vars

\* C15: whenever get_mapper is called, it raises GetMapperError with code
\* 1 for no model, else code 2 for a value that is no class, else code 3
\* for a class that is no Model, else code 4 when no mapper is stored
\* under exactly this class (also when one is stored under its base class
\* or under its subclass), and else returns the mapper stored under the
\* class; and no get_mapper call changes the state of a registry.
C15_GetMapperChecksInOrder ==
    /\ [](call.op = "get_mapper" =>
            result =
              IF call.model = None THEN Raise("GetMapperError", 1)
              ELSE IF call.model.kind # "class" THEN Raise("GetMapperError", 2)
              ELSE IF ~call.model.is_model THEN Raise("GetMapperError", 3)
              ELSE IF \A i \in DOMAIN registered_mappers :
                         registered_mappers[i].key # call.model
                   THEN Raise("GetMapperError", 4)
                   ELSE Return(Lookup(registered_mappers, call.model)))
    /\ [](\A base \in {DummyModel}, sub \in {SubModel} :
             /\ (/\ call.op = "get_mapper"
                 /\ call.model = sub
                 /\ Keys(registered_mappers) = {base})
                => result = Raise("GetMapperError", 4)
             /\ (/\ call.op = "get_mapper"
                 /\ call.model = base
                 /\ Keys(registered_mappers) = {sub})
                => result = Raise("GetMapperError", 4))
    /\ [][call'.op = "get_mapper" => UNCHANGED <<db_vars, mapper_vars>>]_vars

\* get_mapper has been called with the subclass of a model class while a
\* mapper is stored under the model class only, and has raised
\* GetMapperError with code 4.
C15_Witness ==
    /\ call.op = "get_mapper"
    /\ call.model = SubModel
    /\ Keys(registered_mappers) = {DummyModel}
    /\ result = Raise("GetMapperError", 4)

\* The rule of validate_fields an item of a dict breaks first: 6 for a
\* key that is no string, 7 for a blank key, 8 for a value that is no
\* field; 0 for an item that breaks no rule.
RuleBrokenBy(item) ==
    IF ~IsStr(item.key) THEN 6
    ELSE IF Len(Strip(item.key.chars)) = 0 THEN 7
    ELSE IF item.value.kind # "DatabaseField" THEN 8
    ELSE 0

\* The rules the items of a dict break.
RulesBroken(items) == {RuleBrokenBy(items[i]) : i \in DOMAIN items} \ {0}

\* The outcome of the last validate_fields call is the one of a mapping
\* that is no dict of at least one item: codes 3, 4 and 5.
RejectsBeforeItems ==
    /\ call.db_fields = None => result = Raise("DataMapperError", 3)
    /\ (call.db_fields # None /\ call.db_fields.kind # "dict")
          => result = Raise("DataMapperError", 4)
    /\ (call.db_fields # None /\ call.db_fields.kind = "dict"
        /\ Len(call.db_fields.items) = 0)
          => result = Raise("DataMapperError", 5)

\* The last validate_fields call was made with a dict of at least one item.
ValidatesItems ==
    /\ call.op = "validate_fields"
    /\ call.db_fields # None
    /\ call.db_fields.kind = "dict"
    /\ Len(call.db_fields.items) > 0

\* C16, as claimed: validate_fields raises code 3 for no mapping, 4 for a
\* value that is no dict, 5 for an empty dict, and for a dict whose items
\* break rules the code of the earliest rule that any item breaks (6
\* before 7 before 8), whatever the order of the items; a dict that
\* breaks no rule is returned.
C16_EarliestRuleOfAllItems ==
    call.op = "validate_fields" =>
        /\ RejectsBeforeItems
        /\ ValidatesItems =>
              LET broken == RulesBroken(call.db_fields.items)
              IN  IF broken = {}
                  THEN result = Return(call.db_fields)
                  ELSE result = Raise("DataMapperError",
                                      CHOOSE rule \in broken :
                                          \A other \in broken : rule <= other)

\* C16, amended: validate_fields raises code 3 for no mapping, 4 for a
\* value that is no dict, 5 for an empty dict, and for a dict whose items
\* break rules the code of the first rule (6 before 7 before 8) broken by
\* the first item, in the order of the dict, that breaks a rule; a dict
\* that breaks no rule is returned.
C16_EarliestRuleOfFirstBadItem ==
    call.op = "validate_fields" =>
        /\ RejectsBeforeItems
        /\ ValidatesItems =>
              LET items == call.db_fields.items
                  bad == {i \in DOMAIN items : RuleBrokenBy(items[i]) # 0}
              IN  IF bad = {}
                  THEN result = Return(call.db_fields)
                  ELSE result = Raise("DataMapperError",
                                      RuleBrokenBy(items[
                                          CHOOSE i \in bad :
                                              \A j \in bad : i <= j]))

\* validate_fields has been called with a dict whose first item has a
\* value that is no field and whose second item has a key that is no
\* string, and has raised code 8.
C16_Witness ==
    /\ ValidatesItems
    /\ Len(call.db_fields.items) = 2
    /\ RuleBrokenBy(call.db_fields.items[1]) = 8
    /\ RuleBrokenBy(call.db_fields.items[2]) = 6
    /\ result = Raise("DataMapperError", 8)

\* The last call applied the binder of register and raised an error.
BinderRaised == call.op = "register" /\ ~Returned(result)

\* get_database with the profile and the profile name of the last
\* register call, in the current state of DatabaseRegistry.
DatabaseOfBinder ==
    get_database(registered_databases, registered_profiles,
                 call.db_profile_name, call.db_profile)

ProfileRuleBroken(profile) ==
    IF profile = None THEN 1
    ELSE IF profile.kind # "DatabaseProfile" THEN 2
    ELSE IF profile.name = None \/ Strip(profile.name.chars) = <<>> THEN 3
    ELSE IF profile.system = None \/ Strip(profile.system.chars) = <<>> THEN 4
    ELSE IF Str(Strip(Lower(profile.system.chars))) \notin Keys(registered_databases)
    THEN 5
    ELSE 0

\* C18: whenever validate_profile is called, it raises the code of the
\* first rule the profile breaks, in the order 1, 2, 3, 4, 5 (code 3 for
\* a profile with neither name nor system), and returns a profile that
\* breaks none; whenever register_profile is called with a profile that
\* breaks a rule, it raises RegisterProfileError with that code, and the
\* call leaves the registry as it was.
C18_ProfileRulesInOrder ==
    /\ [](call.op = "validate_profile" =>
            result = IF ProfileRuleBroken(call.profile) = 0
                     THEN Return(call.profile)
                     ELSE Raise("DataMapperError",
                                ProfileRuleBroken(call.profile)))
    /\ [](call.op = "register_profile" =>
            IF ProfileRuleBroken(call.profile) = 0
            THEN Returned(result)
            ELSE result = Raise("RegisterProfileError",
                                ProfileRuleBroken(call.profile)))
    /\ [](/\ call.op \in {"validate_profile", "register_profile"}
          /\ call.profile # None
          /\ call.profile.kind = "DatabaseProfile"
          /\ call.profile.name = None
          /\ call.profile.system = None
          => ~Returned(result) /\ result.code = 3)
    /\ [][(call'.op = "register_profile" /\ ~Returned(result'))
             => UNCHANGED <<db_vars, mapper_vars>>]_vars

\* register_profile has been called with a profile that has neither name
\* nor system while a profile is registered, and has raised
\* RegisterProfileError with code 3.
C18_Witness ==
    /\ call.op = "register_profile"
    /\ call.profile # None
    /\ call.profile.kind = "DatabaseProfile"
    /\ call.profile.name = None
    /\ call.profile.system = None
    /\ Len(registered_profiles) >= 1
    /\ result = Raise("RegisterProfileError", 3)

\* The first rule of validate_database that a driver breaks: 1 for no
\* driver, 2 for a class that is no subclass of Database, 3 for a system
\* that is no DatabaseSystem constant; 0 if it breaks none.
DatabaseRuleBroken(database) ==
    IF database = None THEN 1
    ELSE IF ~database.is_database THEN 2
    ELSE IF database.system.kind # "DatabaseSystem" THEN 3
    ELSE 0

\* The systems of the registered drivers.
RegisteredSystems ==
    {registered_databases[i].value.system : i \in DOMAIN registered_databases}

\* C19: every register_database call with a driver that breaks a rule
\* raises RegisterDatabaseError with the code of the first rule broken (1,
\* 2, 3 in this order) and leaves the registry as it was; every other call
\* stores the driver under its system value in lower case, in place of the
\* driver stored under this key before if there was one, and leaves the
\* other drivers as they were; and there are never more registered drivers
\* than systems of registered drivers.
C19_RegisterDatabaseRules ==
    /\ [][(call'.op = "register_database"
           /\ DatabaseRuleBroken(call'.database) # 0)
          => /\ result' = Raise("RegisterDatabaseError",
                                DatabaseRuleBroken(call'.database))
             /\ UNCHANGED <<db_vars, mapper_vars>>]_vars
    /\ [][(call'.op = "register_database"
           /\ DatabaseRuleBroken(call'.database) = 0)
          => LET key == Str(Lower(call'.database.system.value.chars))
             IN  /\ Returned(result')
                 /\ Contains(registered_databases', key)
                 /\ Lookup(registered_databases', key) = call'.database
                 /\ Len(registered_databases')
                       = IF Contains(registered_databases, key)
                         THEN Len(registered_databases)
                         ELSE Len(registered_databases) + 1
                 /\ \A i \in DOMAIN registered_databases :
                       IF registered_databases[i].key = key
                       THEN registered_databases'[i].key = key
                       ELSE registered_databases'[i] = registered_databases[i]
                 /\ UNCHANGED <<registered_profiles, is_initialized,
                                mapper_vars>>]_vars
    /\ [](Len(registered_databases) <= Cardinality(RegisteredSystems))

\* register_database has stored the driver of the tests under "mysql", in
\* place of MySQLDatabase, which initialize had registered: the two
\* drivers of initialize are still two.
C19_Witness ==
    /\ call.op = "register_database"
    /\ call.database = DummyDatabase
    /\ Returned(result)
    /\ is_initialized
    /\ Len(registered_databases) = 2
    /\ Lookup(registered_databases, SystemMysql) = DummyDatabase

\* C20: whenever get_profile is called, it raises GetProfileError with
\* code 1 for a name that is missing or blank, else with code 2 when no
\* profile is registered under exactly this name, and else returns the
\* profile registered under the name, which is a profile and not None; a
\* get_profile call that follows a successful register_profile call with
\* the name of its profile returns that profile; and no get_profile call
\* changes the state of a registry.
C20_GetProfileRules ==
    /\ [](call.op = "get_profile" =>
            IF call.profile_name = None
               \/ Strip(call.profile_name.chars) = <<>>
            THEN result = Raise("GetProfileError", 1)
            ELSE IF \A i \in DOMAIN registered_profiles :
                       registered_profiles[i].key # call.profile_name
            THEN result = Raise("GetProfileError", 2)
            ELSE /\ Returned(result)
                 /\ result.value # None
                 /\ result.value.kind = "DatabaseProfile"
                 /\ result.value.name = call.profile_name
                 /\ \E i \in DOMAIN registered_profiles :
                       registered_profiles[i]
                          = [key |-> call.profile_name, value |-> result.value])
    /\ [][(/\ call.op = "register_profile"
           /\ Returned(result)
           /\ call'.op = "get_profile"
           /\ call'.profile_name = call.profile.name)
          => result' = Return(call.profile)]_vars
    /\ [][call'.op = "get_profile" => UNCHANGED <<db_vars, mapper_vars>>]_vars

\* get_profile has been called with the name of the first of two
\* registered profiles preceded by white space, and has raised
\* GetProfileError with code 2.
C20_Witness ==
    /\ call.op = "get_profile"
    /\ call.profile_name = PaddedName
    /\ Len(registered_profiles) = 2
    /\ registered_profiles[1].key = Str(Strip(PaddedName.chars))
    /\ result = Raise("GetProfileError", 2)

\* A successful register_profile step whose profile has a name that was
\* not registered before the step.
RegistersNewName ==
    /\ call'.op = "register_profile"
    /\ Returned(result')
    /\ ~Contains(registered_profiles, call'.profile.name)

\* C21: get_first_registered_profile and get_last_registered_profile raise
\* GetProfileError code 3 exactly when no profile is registered, whatever
\* drivers are registered; otherwise they return the profiles of the first
\* and of the last position.  Registering a profile with a new name keeps
\* the profile of the first position and makes the new profile the one of
\* the last position, which differs from the last one before.
C21_FirstAndLastRegisteredProfile ==
    /\ [](call.op = "get_first_registered_profile" =>
            /\ Raised(result, "GetProfileError", 3) <=> registered_profiles = <<>>
            /\ registered_profiles # <<>> =>
                   result = Return(registered_profiles[1].value))
    /\ [](call.op = "get_last_registered_profile" =>
            /\ Raised(result, "GetProfileError", 3) <=> registered_profiles = <<>>
            /\ registered_profiles # <<>> =>
                   result = Return(registered_profiles[Len(registered_profiles)].value))
    /\ [][RegistersNewName /\ registered_profiles # <<>> =>
            /\ get_first_registered_profile(registered_profiles')
                   = get_first_registered_profile(registered_profiles)
            /\ get_last_registered_profile(registered_profiles')
                   = Return(call'.profile)
            /\ get_last_registered_profile(registered_profiles')
                   # get_last_registered_profile(registered_profiles)]_vars

\* get_last_registered_profile returned the second of two registered
\* profiles, which is not the first registered one, with drivers
\* registered.
C21_Witness ==
    /\ call.op = "get_last_registered_profile"
    /\ Len(registered_profiles) = 2
    /\ registered_databases # <<>>
    /\ result = Return(registered_profiles[2].value)
    /\ result # get_first_registered_profile(registered_profiles)

\* The calls of DatabaseRegistry other than clear and initialize, and the
\* calls of MapperRegistry other than clear and initialize.
OtherCalls ==
    {"register_database", "register_profile", "get_database", "get_profile",
     "get_first_registered_profile", "get_last_registered_profile",
     "validate_profile", "register", "get_mapper"}

\* The outcome and the registered mappings of a register_database, a
\* register_profile or a binder step are those the operation yields from
\* the mappings before the step with either value of is_initialized, and
\* the operation hands the value of is_initialized on as it got it.
OutcomeIgnoresIsInitialized ==
    \A flag \in BOOLEAN :
        /\ call'.op = "register_database" =>
              \E state \in {register_database(registered_databases, registered_profiles, flag, call'.database)} :
                  /\ state.outcome = result'
                  /\ state.databases = registered_databases'
                  /\ state.profiles = registered_profiles'
                  /\ state.initialized = flag
        /\ call'.op = "register_profile" =>
              \E state \in {register_profile(registered_databases, registered_profiles, flag, call'.profile)} :
                  /\ state.outcome = result'
                  /\ state.databases = registered_databases'
                  /\ state.profiles = registered_profiles'
                  /\ state.initialized = flag
        /\ call'.op = "register" =>
              \E state \in {register(registered_mappers, flag, registered_databases, registered_profiles, call'.db_profile, call'.db_profile_name, call'.db_fields, call'.model)} :
                  /\ state.outcome = result'
                  /\ state.mappers = registered_mappers'
                  /\ state.initialized = flag

\* C22: is_initialized of DatabaseRegistry becomes true only in a step of
\* initialize that returns, and false only where clear() runs: in a step
\* of clear, or in a step of initialize that fails after its clear().
\* is_initialized of MapperRegistry becomes true only by its initialize
\* and false only by its clear.  Every other call leaves both flags as
\* they are, and the outcome of register_database, register_profile and
\* the binder is the same for either value of the flag.
C22_TwoStateLifecycle ==
    [][/\ (~is_initialized /\ is_initialized') =>
              call'.op = "initialize" /\ Returned(result')
       /\ (is_initialized /\ ~is_initialized') =>
              \/ call'.op = "clear"
              \/ call'.op = "initialize" /\ ~Returned(result')
       /\ (call'.op = "initialize" /\ Returned(result')) => is_initialized'
       /\ call'.op = "clear" => ~is_initialized'
       /\ (~mapper_is_initialized /\ mapper_is_initialized') =>
              call'.op = "MapperRegistry.initialize"
       /\ (mapper_is_initialized /\ ~mapper_is_initialized') =>
              call'.op = "MapperRegistry.clear"
       /\ call'.op = "MapperRegistry.initialize" => mapper_is_initialized'
       /\ call'.op = "MapperRegistry.clear" => ~mapper_is_initialized'
       /\ call'.op \in OtherCalls =>
              /\ is_initialized' = is_initialized
              /\ mapper_is_initialized' = mapper_is_initialized
       /\ OutcomeIgnoresIsInitialized]_vars

\* register_profile registered a profile while DatabaseRegistry is not
\* initialized and MapperRegistry is.
C22_Witness ==
    /\ call.op = "register_profile"
    /\ Returned(result)
    /\ ~is_initialized
    /\ mapper_is_initialized
    /\ registered_profiles # <<>>

\* The file of a read_profiles_from_file call has no section header.
HasNoSection(path) == \A i \in DOMAIN path.lines : path.lines[i].line # "section"

\* C23: read_profiles_from_file raises ParseProfileConfigFileError with
\* code 1 for a path that does not exist, code 2 for a file that cannot be
\* read and code 3 for a file that configparser refuses; a readable file
\* without any section header, empty or not, raises code 3, and no call
\* returns an empty list of profiles.
C23_ReadProfilesErrors ==
    call.op = "read_profiles_from_file" =>
        /\ ~call.path.exists => Raised(result, "ParseProfileConfigFileError", 1)
        /\ (call.path.exists /\ ~call.path.readable) =>
               Raised(result, "ParseProfileConfigFileError", 2)
        /\ (call.path.exists /\ call.path.readable
                /\ ~Returned(ParseLines(call.path.lines, EmptyDict))) =>
               Raised(result, "ParseProfileConfigFileError", 3)
        /\ (call.path.exists /\ call.path.readable /\ HasNoSection(call.path)) =>
               Raised(result, "ParseProfileConfigFileError", 3)
        /\ result # Return(<<>>)

\* C24: the binder of register validates the model, then the fields, then
\* resolves the driver with get_database: with a refused model it raises
\* the error of validate_model whatever the fields are, with an accepted
\* model and refused fields the error of validate_fields whatever the
\* profile is, and with both accepted and a profile that get_database
\* refuses the error of get_database as it is (GetProfileError code 3
\* without profile, profile name and registered profile).  A binder that
\* raises leaves the registered mappers as they are.
C24_BinderValidationOrder ==
    /\ [](call.op = "register" =>
            LET valid_model == validate_model(call.model, "RegisterMapperError")
                valid_fields == validate_fields(call.db_fields, "RegisterMapperError")
            IN  /\ ~Returned(valid_model) => result = valid_model
                /\ (Returned(valid_model) /\ ~Returned(valid_fields)) =>
                       result = valid_fields
                /\ (Returned(valid_model) /\ Returned(valid_fields)
                        /\ ~Returned(DatabaseOfBinder)) =>
                       result = DatabaseOfBinder
                /\ (Returned(valid_model) /\ Returned(valid_fields)
                        /\ call.db_profile = None /\ call.db_profile_name = None
                        /\ registered_profiles = <<>>) =>
                       result = Raise("GetProfileError", 3))
    /\ [][(call'.op = "register" /\ ~Returned(result')) =>
              registered_mappers' = registered_mappers]_vars

\* The binder has been applied to no model with no fields and a value
\* that is no profile, and has raised the error of the model while
\* mappers are registered.
C24_Witness ==
    /\ call.op = "register"
    /\ call.model = None
    /\ call.db_fields = None
    /\ call.db_profile = Object
    /\ result = Raise("RegisterMapperError", 1)
    /\ registered_mappers # <<>>

\* The profiles that read_profiles_from_file gives for the file of the
\* last initialize call.
ProfilesOfSource == read_profiles_from_file(call.profiles_file_path).value

\* The position in a list of profiles of the first one that
\* register_profile refuses when the built-in drivers are registered; 0 if
\* there is none.
FirstInvalid(profiles) ==
    LET invalid == {i \in DOMAIN profiles :
                       ~Returned(validate_profile(InitializedDatabases,
                                     profiles[i], "RegisterProfileError"))}
    IN  IF invalid = {} THEN 0
        ELSE CHOOSE i \in invalid : \A j \in invalid : i <= j

\* The entries of registered_profiles for the first n profiles of a list.
RegisteredInOrder(profiles, n) ==
    [i \in 1..n |-> [key |-> profiles[i].name, value |-> profiles[i]]]

\* The last call was initialize with a file that read_profiles_from_file
\* accepts.
InitializedFromParsedSource ==
    /\ call.op = "initialize"
    /\ call.profiles_file_path # None
    /\ Returned(read_profiles_from_file(call.profiles_file_path))

\* C25: initialize(source) registers the profiles of the source in file
\* order up to the first one that register_profile refuses: it raises the
\* RegisterProfileError of that profile, the profiles before it and no
\* other are registered, and is_initialized is false.  If no profile is
\* refused all are registered and is_initialized is true; after any
\* initialize call is_initialized is true exactly if the call returned.
C25_InitializeFailsFast ==
    /\ call.op = "initialize" => (is_initialized <=> Returned(result))
    /\ InitializedFromParsedSource =>
          LET invalid == FirstInvalid(ProfilesOfSource) IN
          IF invalid = 0
          THEN /\ result = Return(None)
               /\ registered_profiles
                     = RegisteredInOrder(ProfilesOfSource, Len(ProfilesOfSource))
          ELSE /\ result = validate_profile(InitializedDatabases,
                                ProfilesOfSource[invalid], "RegisterProfileError")
               /\ result.error = "RegisterProfileError"
               /\ registered_profiles
                     = RegisteredInOrder(ProfilesOfSource, invalid - 1)
               /\ ~is_initialized

\* initialize has failed on the second of three profiles: the first is
\* registered, the third, which register_profile accepts, is not.
C25_Witness ==
    /\ InitializedFromParsedSource
    /\ Len(ProfilesOfSource) = 3
    /\ FirstInvalid(ProfilesOfSource) = 2
    /\ Len(registered_profiles) = 1
    /\ Returned(validate_profile(InitializedDatabases,
                    ProfilesOfSource[Len(ProfilesOfSource)],
                    "RegisterProfileError"))
    /\ ~Returned(result)
    /\ ~is_initialized

\* A step of initialize that raises ParseProfileConfigFileError.
InitializeFailsToParse ==
    /\ call'.op = "initialize"
    /\ ~Returned(result')
    /\ result'.error = "ParseProfileConfigFileError"

\* C26: a call of initialize that raises ParseProfileConfigFileError does
\* not give the registry back as it was: after it exactly the built-in
\* drivers are registered, whatever drivers were registered before, no
\* profile is registered, whatever profiles were registered before, and
\* is_initialized is false, whatever it was before.
C26_ParseFailureLeavesClearedRegistry ==
    [][InitializeFailsToParse =>
          /\ registered_databases' = InitializedDatabases
          /\ registered_profiles' = <<>>
          /\ ~is_initialized'
          /\ (registered_profiles # <<>> =>
                 registered_profiles' # registered_profiles)
          /\ (is_initialized => is_initialized' # is_initialized)]_vars

\* initialize has failed with ParseProfileConfigFileError code 3 and the
\* built-in drivers are registered.
C26_Witness ==
    /\ call.op = "initialize"
    /\ result = Raise("ParseProfileConfigFileError", 3)
    /\ registered_databases = InitializedDatabases
    /\ registered_profiles = <<>>
    /\ ~is_initialized

\* An entry of registered_profiles is stored under the name of its
\* profile, the name is a string that is not blank, and the system of the
\* profile, in lower case and without surrounding white space, is a key of
\* the registered drivers.
IsValidEntry(entry) ==
    /\ IsDatabaseProfile(entry.value)
    /\ entry.key = entry.value.name
    /\ IsStr(entry.value.name)
    /\ ~IsBlank(entry.value.name)
    /\ IsStr(entry.value.system)
    /\ Contains(registered_databases, DriverKey(entry.value.system))

\* The profiles of the file of an initialize step; none for a step without
\* file or with a file that read_profiles_from_file refuses.
ProfilesRead(path) ==
    IF path = None \/ ~Returned(read_profiles_from_file(path)) THEN {}
    ELSE {read_profiles_from_file(path).value[i] :
             i \in DOMAIN read_profiles_from_file(path).value}

\* C27: in every state that clear, initialize, register_database and
\* register_profile calls reach, returning or raising, every registered
\* profile is stored under its name, has a name that is not blank and a
\* system whose lower-case, trimmed form is the key of a registered driver.
\* A step after which the key of a driver is no longer registered is a
\* step of clear, after which no profile is registered, or a step of
\* initialize, whose clear() leaves no profile but those that initialize
\* registers from its file afterwards.
C27_RegisteredProfilesAreValid ==
    /\ [](\A i \in DOMAIN registered_profiles :
              IsValidEntry(registered_profiles[i]))
    /\ [][Keys(registered_databases) \ Keys(registered_databases') # {} =>
            \/ call'.op = "clear" /\ registered_profiles' = <<>>
            \/ /\ call'.op = "initialize"
               /\ \A i \in DOMAIN registered_profiles' :
                      registered_profiles'[i].value
                         \in ProfilesRead(call'.profiles_file_path)]_vars

\* Two profiles are registered, one of them with a system that is not
\* written as the key of its driver, and the driver of a caller is among
\* the three registered drivers.
C27_Witness ==
    /\ Len(registered_profiles) = 2
    /\ Len(registered_databases) = 3
    /\ \E i \in DOMAIN registered_profiles :
          ~Contains(registered_databases, registered_profiles[i].value.system)
    /\ call.op = "register_profile"
    /\ Returned(result)

\* The validation methods of the two registries.
ValidationMethods ==
    {"validate_database", "validate_profile", "validate_profile_name",
     "validate_model", "validate_fields"}

\* The outcome of the validation method of the last call with its
\* argument, the current registry and a given error to raise.
ValidationWith(error_to_raise) ==
    CASE call.op = "validate_database" ->
             validate_database(call.argument, error_to_raise)
      [] call.op = "validate_profile" ->
             validate_profile(registered_databases, call.argument, error_to_raise)
      [] call.op = "validate_profile_name" ->
             validate_profile_name(registered_profiles, call.argument,
                                   error_to_raise)
      [] call.op = "validate_model" ->
             validate_model(call.argument, error_to_raise)
      [] call.op = "validate_fields" ->
             validate_fields(call.argument, error_to_raise)

\* C28: a call of validate_database, validate_profile,
\* validate_profile_name, validate_model or validate_fields with an error
\* to raise E raises exactly when the call with the same argument in the
\* same registry state and the default DataMapperError raises; it then
\* raises E with the code the default call raises DataMapperError with.
\* A call that does not raise returns its argument, and no call changes
\* the state of a registry.
C28_ValidationByErrorFamily ==
    /\ [](call.op \in ValidationMethods =>
            LET default == ValidationWith("DataMapperError") IN
            /\ Returned(result) <=> Returned(default)
            /\ Returned(result) => result = Return(call.argument)
            /\ ~Returned(result) =>
                  /\ default.error = "DataMapperError"
                  /\ result = Raise(call.error_to_raise, default.code))
    /\ [][call'.op \in ValidationMethods =>
              UNCHANGED <<db_vars, mapper_vars>>]_vars

\* validate_profile_name has raised RegisterMapperError with code 2 for a
\* name that is not registered while another name is.
C28_Witness ==
    /\ call.op = "validate_profile_name"
    /\ call.error_to_raise = "RegisterMapperError"
    /\ result = Raise("RegisterMapperError", 2)
    /\ registered_profiles # <<>>

\* A step of get_database leaves both registries as they are, a driver
\* instance it returns is a new value that no registry holds, and a
\* profile given as argument is registered after the step only if it was
\* registered before.
GetDatabaseChangesNothing ==
    call'.op = "get_database" =>
        /\ UNCHANGED <<db_vars, mapper_vars>>
        /\ Returned(result') =>
              /\ result'.value.kind = "instance"
              /\ \A i \in DOMAIN registered_databases' :
                     registered_databases'[i].value # result'.value
              /\ \A i \in DOMAIN registered_mappers' :
                     registered_mappers'[i].value.database # result'.value
        /\ \A i \in DOMAIN registered_profiles' :
              registered_profiles'[i].value = call'.profile =>
                  \E j \in DOMAIN registered_profiles :
                      registered_profiles[j].value = call'.profile

\* C29: get_database constructs a driver instance on every call that
\* returns and changes no registry state, whether it returns or raises:
\* drivers, profiles and is_initialized are as before and a profile given
\* as argument is not registered by the call; and every mapper that the
\* binder of register registers for a profile owns a driver instance that
\* get_database constructed for it, so that after the binder has been
\* applied to arguments that pass validation and resolve to a driver the
\* model has a mapper with a driver instance of its own.
C29_FreshDriverPerCall ==
    /\ [][GetDatabaseChangesNothing]_vars
    /\ [](AppliesBinderToValidArguments =>
            /\ Contains(registered_mappers, call.model)
            /\ Lookup(registered_mappers, call.model).database.kind = "instance")

\* C30: every error that get_database raises is a GetProfileError with
\* code 1, 2 or 3 or a GetDatabaseError with a code from 2 to 5; it never
\* raises GetDatabaseError with code 1, since without a profile it takes
\* the last registered profile or raises GetProfileError with code 3, and
\* it raises no error that is none of the two.
C30_GetDatabaseErrorFamilies ==
    (CalledGetDatabase /\ ~Returned(result)) =>
        \/ result.error = "GetProfileError" /\ result.code \in 1..3
        \/ result.error = "GetDatabaseError" /\ result.code \in 2..5

\* A step of clear or initialize of MapperRegistry leaves DatabaseRegistry
\* as it is, and a step of clear or initialize of DatabaseRegistry leaves
\* MapperRegistry as it is.
ClearsOneRegistry ==
    /\ call'.op \in {"MapperRegistry.clear", "MapperRegistry.initialize"} =>
          UNCHANGED db_vars
    /\ call'.op \in {"clear", "initialize"} => UNCHANGED mapper_vars

\* C31: clear and initialize of MapperRegistry leave the drivers, the
\* profiles and is_initialized of DatabaseRegistry unchanged, and clear
\* and initialize of DatabaseRegistry leave the registered mappers
\* unchanged; so when the binder of register has been applied to
\* arguments that pass validation and resolve to a driver, and
\* DatabaseRegistry is cleared or initialized next, get_mapper still
\* returns the mapper of the model with the driver instance that
\* get_database constructed for it.
C31_RegistriesClearedIndependently ==
    [][/\ ClearsOneRegistry
       /\ (AppliesBinderToValidArguments /\ call'.op \in {"clear", "initialize"}) =>
             /\ Returned(get_mapper(registered_mappers', call.model))
             /\ get_mapper(registered_mappers', call.model).value.database
                    = DatabaseOfBinder.value]_vars

\* A step in which the call of the get_database thread, or of the
\* get_last_registered_profile thread, ends.
GetDatabaseCallEnds ==
    call.get_database.pc # "idle" /\ call'.get_database.pc = "idle"

LastProfileCallEnds ==
    /\ call.get_last_registered_profile.pc # "idle"
    /\ call'.get_last_registered_profile.pc = "idle"

\* C32: without a lock, a lookup in one thread and clear() in another
\* interleave statement by statement.  A lookup during which no other
\* thread has changed a mapping ends as the same call does when it runs
\* alone.  A get_last_registered_profile call, alone or inside
\* get_database, raises IndexError only if clear() has run since the call
\* began, that is after its test for no profile; a get_database call
\* raises KeyError for a profile whose system is written as a driver key
\* only if clear() has run since the call began, that is after
\* validate_profile accepted the profile.  A lookup that returns returns a
\* profile or a driver instance.
C32_LookupsRaceWithClear ==
    [][/\ GetDatabaseCallEnds =>
             /\ ~call.get_database.written =>
                    result'.get_database
                       = get_database(registered_databases, registered_profiles,
                                      call.get_database.profile_name,
                                      call.get_database.profile)
             /\ result'.get_database = Raise("IndexError", NoCode) =>
                    call.get_database.cleared
             /\ (/\ result'.get_database = Raise("KeyError", NoCode)
                 /\ DriverKey(call.get_database.chosen.system)
                       = call.get_database.chosen.system) =>
                    call.get_database.cleared
             /\ Returned(result'.get_database) =>
                    result'.get_database.value.kind = "instance"
       /\ LastProfileCallEnds =>
             /\ ~call.get_last_registered_profile.written =>
                    result'.get_last_registered_profile
                       = get_last_registered_profile(registered_profiles)
             /\ result'.get_last_registered_profile = Raise("IndexError", NoCode) =>
                    call.get_last_registered_profile.cleared
             /\ Returned(result'.get_last_registered_profile) =>
                    IsDatabaseProfile(result'.get_last_registered_profile.value)]_vars

\* The get_database thread has ended a call with KeyError and the
\* get_last_registered_profile thread a call with IndexError, neither of
\* them a DataMapperError, after clear() of the writer thread.
C32_Witness ==
    /\ result.get_database = Raise("KeyError", NoCode)
    /\ result.get_last_registered_profile = Raise("IndexError", NoCode)
    /\ registered_databases = <<>>
    /\ registered_profiles = <<>>

====
